---- MODULE Spec2Model ----
(***************************************************************************)
(* A model of the anvil composition engine (crates/anvil-engine):          *)
(* compose_template and the functions it calls, the conflict resolver,     *)
(* the structural JSON merge and the condition evaluator.                  *)
(*                                                                         *)
(* Strings the code takes apart (paths, file names, condition strings,     *)
(* template names) are sequences of tokens, so that contains, split,       *)
(* starts_with, trim and extension are computed and not looked up.         *)
(***************************************************************************)
EXTENDS Integers, Sequences, FiniteSets, TLC

VARIABLES
  template_name,    \* compose_template argument
  services,         \* compose_template argument: Vec<ServiceSelection>
  pc,               \* position of the running compose_template call
  base_config,      \* the loaded TemplateConfig
  service_context,  \* result of build_service_context
  composed_files,   \* Vec<ComposedFile> being collected
  svc_idx,          \* index of the next service whose files are collected
  filtered_files,   \* files after conditional inclusion
  resolved_files,   \* files after conflict resolution
  result,           \* the ComposedTemplate returned, or NoResult
  err,              \* the EngineError returned, or NoErr
  collect_started,  \* history: a file-collection step has run in this call
  run,              \* number of the current call on the unchanged filesystem
  first_result,     \* what the first call returned
  condition,        \* condition evaluator: the condition string
  cond_result,      \* condition evaluator: the value returned
  r_files,          \* resolver: input file list
  r_config,         \* resolver: Option<CompositionConfig>
  r_out,            \* resolver: outcome of resolve_file_conflicts
  r_again,          \* resolver: outcome of resolving r_out once more
  j_files,          \* JSON merge: the contributors
  j_out,            \* JSON merge: outcome of merge_json_files
  d_category,       \* discovery: the ServiceCategory asked for
  d_dir,            \* discovery: the category directory, if it exists
  d_out,            \* discovery: outcome of discover_service_providers
  user_context,     \* rendering: the variables of the user Context
  processed,        \* rendering: outcome of process_composed_template
  rendered,         \* history: the files handed to the template evaluator
  create_options,   \* create command: the CreateOptions
  c_pc,             \* create command: position of create_project
  output_dir,       \* create command: the output directory on disk
  c_err,            \* create command: the error create_project returned
  touched,          \* history: the output directory was changed on disk
  generated,        \* history: generate_files has been invoked
  t_tree,           \* collector: the directory tree read
  t_source,         \* collector: the FileSource of the tree
  t_out,            \* collector: outcome of collect_files_recursive
  n_dep,            \* npm entry: the dependency string
  n_out,            \* npm entry: the object built for it
  f_input,          \* naming filters: the string filtered
  f_out,            \* naming filters: what the filters returned
  m_config,         \* manifest: the TemplateConfig parsed from the file
  m_out,            \* manifest: outcome of TemplateConfig::from_file
  g_template,       \* generator: the ProcessedTemplate to write
  g_dry_run,        \* generator: FileGenerator.dry_run
  g_disk,           \* generator: the output directory on disk
  g_index,          \* generator: files handled so far by generate_files
  g_progress,       \* generator: the invocations of the progress callback
  g_result,         \* generator: outcome of generate_files
  calls             \* concurrent compose_template calls, by call number

vars == <<template_name, services, pc, base_config, service_context,
          composed_files, svc_idx, filtered_files, resolved_files, result, err,
          collect_started, run, first_result, condition, cond_result,
          r_files, r_config, r_out, r_again, j_files, j_out,
          d_category, d_dir, d_out, user_context, processed, rendered,
          create_options, c_pc, output_dir, c_err, touched, generated,
          t_tree, t_source, t_out, n_dep, n_out, f_input, f_out, m_config, m_out,
          g_template, g_dry_run, g_disk, g_index, g_progress, g_result, calls>>

composeVars == <<template_name, services, pc, base_config, service_context,
                 composed_files, svc_idx, filtered_files, resolved_files, result,
                 err, collect_started, run, first_result>>
condVars == <<condition, cond_result>>
resolveVars == <<r_files, r_config, r_out, r_again>>
jsonVars == <<j_files, j_out>>
discoverVars == <<d_category, d_dir, d_out>>
renderVars == <<user_context, processed, rendered>>
createVars == <<create_options, c_pc, output_dir, c_err, touched, generated>>
cliVars == <<discoverVars, renderVars, createVars>>
collectVars == <<t_tree, t_source, t_out>>
npmVars == <<n_dep, n_out>>
filterVars == <<f_input, f_out>>
manifestVars == <<m_config, m_out>>
generatorVars == <<g_template, g_dry_run, g_disk, g_index, g_progress, g_result>>
unitVars == <<collectVars, npmVars, filterVars, manifestVars, generatorVars, calls>>

(***************************************************************************)
(* Bounds of the model.                                                    *)
(***************************************************************************)
MaxSelections == 2
MaxFiles == 3
MaxContributors == 3

(***************************************************************************)
(* Generic sequence helpers.                                               *)
(***************************************************************************)
Range(s) == {s[i] : i \in DOMAIN s}

SeqsUpTo(S, n) == UNION {[1..k -> S] : k \in 0..n}

Min(S) == CHOOSE x \in S : \A y \in S : x <= y

Max(S) == CHOOSE x \in S : \A y \in S : x >= y

Last(s) == s[Len(s)]

\* Vec::extend / concatenation of a sequence of sequences
RECURSIVE Flatten(_)
Flatten(ss) == IF ss = <<>> THEN <<>> ELSE Head(ss) \o Flatten(Tail(ss))

\* the elements of s that satisfy Test, in order (Iterator::filter)
FilterSeq(s, Test(_)) == SelectSeq(s, Test)

\* all orders in which the elements of a finite set can be visited
Orders(S) ==
  {f \in [1..Cardinality(S) -> S] : \A a \in S : \E i \in DOMAIN f : f[i] = a}

\* all rearrangements of a sequence
Perms(s) ==
  {[i \in DOMAIN s |-> s[p[i]]] : p \in Orders(DOMAIN s)}

\* str::contains on token sequences
Contains(s, sub) ==
  \E i \in 0..(Len(s) - Len(sub)) : SubSeq(s, i + 1, i + Len(sub)) = sub

\* str::starts_with on token sequences
StartsWith(s, pre) == Len(s) >= Len(pre) /\ SubSeq(s, 1, Len(pre)) = pre

\* str::ends_with on token sequences
EndsWith(s, suf) ==
  Len(s) >= Len(suf) /\ SubSeq(s, Len(s) - Len(suf) + 1, Len(s)) = suf

(***************************************************************************)
(* Data model (config.rs, composition.rs).                                 *)
(***************************************************************************)
ServiceCategory ==
  {"Auth", "Payments", "Database", "AI", "Api", "Deployment", "Monitoring",
   "Email", "Storage"}

\* format!("{:?}", category).to_lowercase()
CategoryKey(c) ==
  CASE c = "Auth" -> "auth"
    [] c = "Payments" -> "payments"
    [] c = "Database" -> "database"
    [] c = "AI" -> "ai"
    [] c = "Api" -> "api"
    [] c = "Deployment" -> "deployment"
    [] c = "Monitoring" -> "monitoring"
    [] c = "Email" -> "email"
    [] c = "Storage" -> "storage"

FileMergingStrategy == {"Append", "Merge", "Override", "Skip"}

\* impl Default for FileMergingStrategy
DefaultStrategy == "Merge"

\* Option<Vec<String>>
None == [some |-> FALSE, v |-> <<>>]
Some(v) == [some |-> TRUE, v |-> v]

ServiceDefinition(name, category, options, required, dependencies, conflicts) ==
  [name |-> name, category |-> category, options |-> options,
   required |-> required, dependencies |-> dependencies, conflicts |-> conflicts]

ServiceSelection(category, provider) ==
  [category |-> category, provider |-> provider, config |-> <<>>]

ConditionalFile(path, cond) == [path |-> path, condition |-> cond]

\* Option<CompositionConfig>
NoComposition ==
  [some |-> FALSE, file_merging_strategy |-> DefaultStrategy,
   conditional_files |-> <<>>]
Composition(strategy, rules) ==
  [some |-> TRUE, file_merging_strategy |-> strategy, conditional_files |-> rules]

TemplateConfig(name, defs, composition) ==
  [name |-> name, services |-> defs, composition |-> composition]

\* FileSource
BaseTemplate == [kind |-> "BaseTemplate", category |-> "", provider |-> ""]
Service(category, provider) ==
  [kind |-> "Service", category |-> category, provider |-> provider]
Merged == [kind |-> "Merged", category |-> "", provider |-> ""]

ComposedFile(path, content, source, strategy, is_template) ==
  [path |-> path, content |-> content, source |-> source,
   merge_strategy |-> strategy, is_template |-> is_template]

\* EngineError; names holds the values the message is formatted from
NoErr == [type |-> "None", check |-> "", names |-> <<>>]
CompositionError(check, names) ==
  [type |-> "CompositionError", check |-> check, names |-> names]
FileError(names) == [type |-> "FileError", check |-> "", names |-> names]

(***************************************************************************)
(* serde_json values.  An object is a function from keys to values.        *)
(***************************************************************************)
JStr(s) == [t |-> "str", s |-> s, o |-> <<>>]
JObj(f) == [t |-> "obj", s |-> "", o |-> f]
\* an array holds its elements in o
JArr(s) == [t |-> "arr", s |-> "", o |-> s]
JNull == [t |-> "null", s |-> "", o |-> <<>>]

\* Value::is_object
IsObject(v) == v.t = "obj"

(***************************************************************************)
(* File content: a sequence of chunks, each a piece of plain text or the   *)
(* text of one JSON document.                                              *)
(***************************************************************************)
Text(s) == [t |-> "text", s |-> s, doc |-> JNull]
JsonText(d) == [t |-> "json", s |-> "", doc |-> d]
Newline == Text("\n")

Whitespace == {Text("\n"), Text(" ")}

\* str::trim_start_matches / trim_start on chunk and token sequences: the
\* leading elements that are in D are dropped
TrimStart(s, D) ==
  LET keep == {i \in DOMAIN s : s[i] \notin D}
  IN IF keep = {} THEN <<>> ELSE SubSeq(s, Min(keep), Len(s))

\* str::trim_end_matches / trim_end
TrimEnd(s, D) ==
  LET keep == {i \in DOMAIN s : s[i] \notin D}
  IN IF keep = {} THEN <<>> ELSE SubSeq(s, 1, Max(keep))

\* str::trim_matches / trim
Trim(s, D) == TrimEnd(TrimStart(s, D), D)

\* serde_json::from_str: exactly one document, whitespace around it allowed
ParseJson(content) ==
  LET body == Trim(content, Whitespace)
  IN IF Len(body) = 1 /\ body[1].t = "json"
       THEN [ok |-> TRUE, doc |-> body[1].doc]
       ELSE [ok |-> FALSE, doc |-> JNull]

\* serde_json::to_string_pretty
ToStringPretty(map) == <<JsonText(JObj(map))>>

(***************************************************************************)
(* Paths: a sequence of segments, each a sequence of name tokens; a token  *)
(* that starts with a dot is an extension.                                 *)
(***************************************************************************)
ExtensionTokens == {".json", ".tera", ".md", ".ts", ".yaml", ".txt"}

\* Path::file_name
FileName(path) == IF path = <<>> THEN <<>> ELSE Last(path)

\* Path::extension: what follows the last dot of the file name, if the name
\* does not consist of that extension alone
Extension(path) ==
  LET name == FileName(path)
  IN IF Len(name) >= 2 /\ Last(name) \in ExtensionTokens THEN Last(name) ELSE ""

\* Path::with_file_name
WithFileName(path, name) == SubSeq(path, 1, Len(path) - 1) \o <<name>>

\* str::trim_end_matches(".tera")
TrimEndTera(name) == TrimEnd(name, {".tera"})

AnvilYaml == <<"anvil", ".yaml">>

(***************************************************************************)
(* The filesystem the engine reads: the templates root and the shared      *)
(* services root.  A directory is the sequence of its entries in the order *)
(* read_dir lists them; the filesystem does not change while the engine    *)
(* runs.                                                                   *)
(***************************************************************************)
File(name, content) ==
  [kind |-> "file", name |-> name, content |-> content, children |-> <<>>]
Dir(name, children) ==
  [kind |-> "dir", name |-> name, content |-> <<>>, children |-> children]

PackageJson == <<"package", ".json">>
ReadmeMd == <<"README", ".md">>
AuthTs == <<"auth", ".ts">>
DbTs == <<"db", ".ts">>

BasePkg ==
  JObj([name |-> JStr("app"), dependencies |-> JObj([react |-> JStr("18")])])
ClerkPkg ==
  JObj([dependencies |-> JObj([clerk |-> JStr("5")]),
        devDependencies |-> JObj([types |-> JStr("1")])])
PostgresPkg ==
  JObj([name |-> JStr("pg-app"),
        dependencies |-> JObj([pg |-> JStr("8"), react |-> JStr("17")])])

BaseTree ==
  <<File(AnvilYaml, <<Text("template manifest")>>),
    File(PackageJson, <<JsonText(BasePkg)>>),
    File(ReadmeMd \o <<".tera">>, <<Text("# {{ project_name }}")>>)>>

\* the directories under the templates root
TemplateNames ==
  {"test-app", "optional-app", "conflict-app", "selfconflict-app",
   "dependency-app", "selfdependency-app", "rust-api", "override-app",
   "append-app", "skip-app", "rules-app"}

TemplateTree(name) == BaseTree

\* the provider directories under the shared services root
ServiceDirs ==
  {<<"auth", "clerk">>, <<"auth", "auth0">>, <<"database", "postgres">>,
   <<"database", "mysql">>, <<"api", "trpc">>, <<"api", "rest">>}

ServiceTree(key, provider) ==
  CASE <<key, provider>> = <<"auth", "clerk">> ->
         <<File(AnvilYaml, <<Text("clerk manifest")>>),
           File(PackageJson, <<JsonText(ClerkPkg)>>),
           Dir(<<"src">>,
               <<File(AuthTs \o <<".tera">>, <<Text("clerk {{ key }}")>>)>>)>>
    [] <<key, provider>> = <<"auth", "auth0">> ->
         <<File(AnvilYaml, <<Text("auth0 manifest")>>),
           Dir(<<"src">>, <<File(AuthTs, <<Text("auth0")>>)>>)>>
    [] <<key, provider>> = <<"database", "postgres">> ->
         <<Dir(<<"src">>, <<File(DbTs, <<Text("postgres {{ project_name }}")>>)>>),
           File(AnvilYaml, <<Text("postgres manifest")>>),
           File(PackageJson, <<JsonText(PostgresPkg)>>)>>
    [] <<key, provider>> = <<"database", "mysql">> ->
         <<Dir(<<"src">>, <<File(DbTs, <<Text("mysql")>>)>>)>>
    [] <<key, provider>> = <<"api", "trpc">> ->
         <<File(AnvilYaml, <<Text("trpc manifest")>>),
           File(ReadmeMd, <<Text("trpc docs")>>)>>
    [] <<key, provider>> = <<"api", "rest">> ->
         <<File(ReadmeMd, <<Text("rest docs")>>),
           File(AnvilYaml, <<Text("rest manifest")>>)>>
    [] OTHER -> <<>>

\* Path::exists of <shared>/<key>/<provider>
ServicePathExists(key, provider) == <<key, provider>> \in ServiceDirs

\* Path::exists of <shared>/<key>/<provider>/anvil.yaml
ServiceConfigExists(key, provider) ==
  /\ ServicePathExists(key, provider)
  /\ \E e \in Range(ServiceTree(key, provider)) :
       e.kind = "file" /\ e.name = AnvilYaml

EnvironmentVariable(name) == [name |-> name]

\* ServiceDependencies: npm, go and python are lists of entries, cargo maps a
\* crate to its version
ServiceDependencies(npm, cargo, go, python) ==
  [npm |-> npm, cargo |-> cargo, go |-> go, python |-> python]

\* npm entries as strings of tokens: scoped with a version, plain with a
\* version, plain, and scoped without a version
ClerkNextjs == <<"@", "clerk/nextjs", "@", "^5.0.0">>
Zod == <<"zod">>
PgVersion8 == <<"pg", "@", "8.11.0">>
TrpcServer == <<"@", "trpc/server">>

\* the fields of a provider manifest the engine reads
Manifest(name, environment_variables, language_requirements, dependencies) ==
  [name |-> name, environment_variables |-> environment_variables,
   language_requirements |-> language_requirements, dependencies |-> dependencies]

\* ServiceConfig::from_file of <shared>/<key>/<provider>/anvil.yaml
ServiceConfig(key, provider) ==
  CASE <<key, provider>> = <<"auth", "clerk">> ->
         Manifest("clerk",
           <<EnvironmentVariable(<<"CLERK_", "SECRET", "_KEY">>),
             EnvironmentVariable(<<"CLERK_", "PUBLISHABLE", "_KEY">>)>>,
           Some(<<"typescript">>),
           Some(ServiceDependencies(Some(<<ClerkNextjs, Zod>>), None, None, None)))
    [] <<key, provider>> = <<"auth", "auth0">> ->
         Manifest("auth0",
           <<EnvironmentVariable(<<"AUTH0_", "SECRET">>)>>,
           None,
           Some(ServiceDependencies(None, Some([jsonwebtoken |-> "9"]), None, None)))
    [] <<key, provider>> = <<"database", "postgres">> ->
         Manifest("postgres",
           <<EnvironmentVariable(<<"DATABASE_", "URL">>)>>,
           None,
           Some(ServiceDependencies(Some(<<PgVersion8, Zod>>),
                  Some([sqlx |-> "0.7", jsonwebtoken |-> "8"]),
                  Some(<<"pgx">>), Some(<<"psycopg">>))))
    [] <<key, provider>> = <<"api", "trpc">> ->
         Manifest("trpc-api", <<>>, Some(<<"typescript">>),
           Some(ServiceDependencies(Some(<<TrpcServer>>), None, None, None)))
    [] OTHER -> Manifest(provider, <<>>, None, None)

AuthOptions == <<"clerk", "auth0", "okta">>
DatabaseOptions == <<"postgres", "mysql">>
ApiOptions == <<"rest", "trpc">>

AuthDef(required) ==
  ServiceDefinition("auth", "Auth", AuthOptions, required, None, None)
DatabaseDef(conflicts) ==
  ServiceDefinition("database", "Database", DatabaseOptions, FALSE, None, conflicts)
ApiDef(dependencies) ==
  ServiceDefinition("api", "Api", ApiOptions, FALSE, dependencies, None)

OptionalServices == <<AuthDef(FALSE), DatabaseDef(None), ApiDef(None)>>

SrcDbTs == <<<<"src">>, DbTs>>
SrcAuthTs == <<<<"src">>, AuthTs>>

HasDatabase == <<"has_", "database">>
HasAuth == <<"has_", "auth">>
ApiIsTrpc == <<"services.", "api", " ", "==", " ", "'", "trpc", "'">>

RulesOfRulesApp ==
  <<ConditionalFile(SrcDbTs, HasDatabase),
    ConditionalFile(SrcAuthTs, ApiIsTrpc),
    ConditionalFile(<<ReadmeMd>>, HasAuth)>>

\* TemplateConfig::from_file of <templates>/<name>/anvil.yaml
TemplateManifest(name) ==
  CASE name = "test-app" ->
         TemplateConfig(<<"test", "-", "app">>,
           <<AuthDef(TRUE), DatabaseDef(None), ApiDef(None)>>, NoComposition)
    [] name = "optional-app" ->
         TemplateConfig(<<"optional", "-", "app">>, OptionalServices, NoComposition)
    [] name = "conflict-app" ->
         TemplateConfig(<<"conflict", "-", "app">>,
           <<AuthDef(FALSE), DatabaseDef(Some(<<"api">>)), ApiDef(None)>>,
           NoComposition)
    [] name = "selfconflict-app" ->
         TemplateConfig(<<"selfconflict", "-", "app">>,
           <<AuthDef(FALSE), DatabaseDef(Some(<<"database">>)), ApiDef(None)>>,
           NoComposition)
    [] name = "dependency-app" ->
         TemplateConfig(<<"dependency", "-", "app">>,
           <<AuthDef(FALSE), DatabaseDef(None), ApiDef(Some(<<"auth">>))>>,
           NoComposition)
    [] name = "selfdependency-app" ->
         TemplateConfig(<<"selfdependency", "-", "app">>,
           <<AuthDef(FALSE), DatabaseDef(None), ApiDef(Some(<<"api">>))>>,
           NoComposition)
    [] name = "rust-api" ->
         TemplateConfig(<<"rust", "-", "api">>,
           <<AuthDef(TRUE), DatabaseDef(Some(<<"api">>)), ApiDef(Some(<<"auth">>))>>,
           NoComposition)
    [] name = "override-app" ->
         TemplateConfig(<<"override", "-", "app">>, OptionalServices,
           Composition("Override", <<>>))
    [] name = "append-app" ->
         TemplateConfig(<<"append", "-", "app">>, OptionalServices,
           Composition("Append", <<>>))
    [] name = "skip-app" ->
         TemplateConfig(<<"skip", "-", "app">>, OptionalServices,
           Composition("Skip", <<>>))
    [] name = "rules-app" ->
         TemplateConfig(<<"rules", "-", "app">>, OptionalServices,
           Composition("Merge", RulesOfRulesApp))

(***************************************************************************)
(* Selection validation (composition.rs, validate_service_selections and   *)
(* validate_service_compatibility).  Each check yields the error of its    *)
(* first failing item; the first failing check decides.                    *)
(***************************************************************************)
\* the early return of a loop or of a chain of `?`: the first error raised
FirstError(errs) ==
  LET bad == {i \in DOMAIN errs : errs[i] # NoErr}
  IN IF bad = {} THEN NoErr ELSE errs[Min(bad)]

\* services.iter().any(|s| s.category == category)
HasCategory(sels, category) ==
  \E i \in DOMAIN sels : sels[i].category = category

\* services.iter().any(|s| format!("{:?}", s.category).to_lowercase() == *key)
HasCategoryKey(sels, key) ==
  \E i \in DOMAIN sels : CategoryKey(sels[i].category) = key

NoDefinition == ServiceDefinition("", "", <<>>, FALSE, None, None)

\* base_config.services.iter().find(|s| s.category == category)
FindDefinition(cfg, category) ==
  LET hits == {i \in DOMAIN cfg.services : cfg.services[i].category = category}
  IN IF hits = {}
       THEN [found |-> FALSE, def |-> NoDefinition]
       ELSE [found |-> TRUE, def |-> cfg.services[Min(hits)]]

\* RequiredCheck with the required flag read the wrong way round
RequiredCheckInverted(cfg, sels) ==
  FirstError([i \in DOMAIN cfg.services |->
    LET def == cfg.services[i]
    IN IF ~def.required /\ ~HasCategory(sels, def.category)
         THEN CompositionError("required", <<def.name>>)
         ELSE NoErr])

\* check 1: required services are provided
RequiredCheck(cfg, sels) ==
  FirstError([i \in DOMAIN cfg.services |->
    LET def == cfg.services[i]
    IN IF def.required /\ ~HasCategory(sels, def.category)
         THEN CompositionError("required", <<def.name>>)
         ELSE NoErr])

\* checks 2 and 3 of one selection: category declared, provider valid,
\* provider directory present
SelectionCheck(cfg, service) ==
  LET found == FindDefinition(cfg, service.category)
  IN IF ~found.found
       THEN CompositionError("category", <<service.category>>)
     ELSE IF service.provider \notin Range(found.def.options)
       THEN CompositionError("provider", <<service.provider, service.category>>)
     ELSE IF ~ServicePathExists(CategoryKey(service.category), service.provider)
       THEN CompositionError("files", <<service.category, service.provider>>)
     ELSE NoErr

\* check 4 of one selection: a declared conflict is among the selections
ConflictCheck(cfg, sels, service) ==
  LET found == FindDefinition(cfg, service.category)
  IN IF found.found /\ found.def.conflicts.some
       THEN FirstError([i \in DOMAIN found.def.conflicts.v |->
              LET conflict == found.def.conflicts.v[i]
              IN IF HasCategoryKey(sels, conflict)
                   THEN CompositionError("conflict", <<found.def.name, conflict>>)
                   ELSE NoErr])
       ELSE NoErr

\* check 5 of one selection: a declared dependency is not among the selections
DependencyCheck(cfg, sels, service) ==
  LET found == FindDefinition(cfg, service.category)
  IN IF found.found /\ found.def.dependencies.some
       THEN FirstError([i \in DOMAIN found.def.dependencies.v |->
              LET dependency == found.def.dependencies.v[i]
              IN IF ~HasCategoryKey(sels, dependency)
                   THEN CompositionError("dependency", <<found.def.name, dependency>>)
                   ELSE NoErr])
       ELSE NoErr

\* detect_project_language
DetectProjectLanguage(cfg) ==
  IF Contains(cfg.name, <<"rust">>) THEN <<"rust">>
  ELSE IF Contains(cfg.name, <<"go">>) THEN <<"go">>
  ELSE IF Contains(cfg.name, <<"python">>) THEN <<"python">>
  ELSE <<"typescript", "javascript">>

\* get_service_language_requirements
GetServiceLanguageRequirements(service_config) ==
  IF service_config.name = "trpc-api" THEN Some(<<"typescript">>) ELSE None

\* validate_service_rules
ValidateServiceRules(service_config, project_languages) ==
  IF service_config.name = "trpc-api" /\ "typescript" \notin Range(project_languages)
    THEN CompositionError("rules", <<"tRPC">>)
    ELSE NoErr

\* check 6 of one selection: language requirements and service rules
CompatibilityCheck(cfg, service) ==
  LET key == CategoryKey(service.category)
      project_language == DetectProjectLanguage(cfg)
  IN IF ServiceConfigExists(key, service.provider)
       THEN LET service_config == ServiceConfig(key, service.provider)
                reqs == GetServiceLanguageRequirements(service_config)
            IN FirstError(
                 <<FirstError([i \in DOMAIN reqs.v |->
                     IF reqs.v[i] \notin Range(project_language)
                       THEN CompositionError("language",
                              <<key, service.provider, reqs.v[i]>>)
                       ELSE NoErr]),
                   ValidateServiceRules(service_config, project_language)>>)
       ELSE NoErr

\* the provider names of the selections of one category, in selection order
ProvidersOf(sels, category) ==
  LET InCategory(s) == s.category = category
      chosen == SelectSeq(sels, InCategory)
  IN [i \in DOMAIN chosen |-> chosen[i].provider]

\* ValidateCrossServiceCompatibility without the check of the API patterns
ValidateCrossAuthOnly(sels) ==
  IF Len(ProvidersOf(sels, "Auth")) > 1
    THEN CompositionError("cross_auth", ProvidersOf(sels, "Auth"))
    ELSE NoErr

\* check 7: validate_cross_service_compatibility
ValidateCrossServiceCompatibility(sels) ==
  IF Len(ProvidersOf(sels, "Auth")) > 1
    THEN CompositionError("cross_auth", ProvidersOf(sels, "Auth"))
  ELSE IF Len(ProvidersOf(sels, "Api")) > 1
    THEN CompositionError("cross_api", ProvidersOf(sels, "Api"))
  ELSE NoErr

\* validate_service_compatibility
ValidateServiceCompatibility(cfg, sels) ==
  FirstError(
    <<FirstError([i \in DOMAIN sels |-> CompatibilityCheck(cfg, sels[i])]),
      ValidateCrossServiceCompatibility(sels)>>)

\* ValidateServiceSelections with the selections checked before the required
\* services
ValidateSelectionsFirst(cfg, sels) ==
  FirstError(
    <<FirstError([i \in DOMAIN sels |-> SelectionCheck(cfg, sels[i])]),
      RequiredCheck(cfg, sels),
      FirstError([i \in DOMAIN sels |-> ConflictCheck(cfg, sels, sels[i])]),
      FirstError([i \in DOMAIN sels |-> DependencyCheck(cfg, sels, sels[i])]),
      ValidateServiceCompatibility(cfg, sels)>>)

\* validate_service_selections
ValidateServiceSelections(cfg, sels) ==
  FirstError(
    <<RequiredCheck(cfg, sels),
      FirstError([i \in DOMAIN sels |-> SelectionCheck(cfg, sels[i])]),
      FirstError([i \in DOMAIN sels |-> ConflictCheck(cfg, sels, sels[i])]),
      FirstError([i \in DOMAIN sels |-> DependencyCheck(cfg, sels, sels[i])]),
      ValidateServiceCompatibility(cfg, sels)>>)

(***************************************************************************)
(* HashMap: a function from keys to values.                                *)
(***************************************************************************)
EmptyMap == <<>>

\* HashMap::insert
MapInsert(m, k, v) == [x \in DOMAIN m \cup {k} |-> IF x = k THEN v ELSE m[x]]

\* HashMap::get(k).map_or(false, |v| v == expected)
MapGetIs(m, k, expected) == k \in DOMAIN m /\ m[k] = expected

\* Map::extend: the entries of b are inserted into a
MapExtend(a, b) ==
  [k \in DOMAIN a \cup DOMAIN b |-> IF k \in DOMAIN b THEN b[k] ELSE a[k]]

Front(s) == SubSeq(s, 1, Len(s) - 1)

(***************************************************************************)
(* build_service_context                                                   *)
(***************************************************************************)
JBool(b) == [t |-> "bool", s |-> IF b THEN "true" ELSE "false", o |-> <<>>]
\* a Value::String whose text is kept as its tokens
JTokens(tokens) == [t |-> "str", s |-> "", o |-> tokens]
JNumber(n) == [t |-> "num", s |-> "", o |-> <<n>>]

\* the name of the last environment variable whose name contains
\* PUBLISHABLE or PUBLIC, exported under public_auth_key_name
PublicKeyExports(exports, service_config) ==
  LET envs == service_config.environment_variables
      hits == {i \in DOMAIN envs :
                 \/ Contains(envs[i].name, <<"PUBLISHABLE">>)
                 \/ Contains(envs[i].name, <<"PUBLIC">>)}
  IN IF hits = {} THEN exports
     ELSE MapInsert(exports, "public_auth_key_name", JTokens(envs[Max(hits)].name))

\* the exports of one selection before the user configuration is merged in
CategoryExports(service, service_config) ==
  LET common == [provider |-> JStr(service.provider),
                 category |-> JStr(service.category)]
      p == JStr(service.provider)
  IN CASE service.category = "Auth" ->
            PublicKeyExports(
              MapExtend(common, [auth_provider |-> p, has_auth |-> JBool(TRUE)]),
              service_config)
       [] service.category = "Database" ->
            MapExtend(common, [database_provider |-> p, has_database |-> JBool(TRUE)])
       [] service.category = "Payments" ->
            MapExtend(common, [payments_provider |-> p, has_payments |-> JBool(TRUE)])
       [] service.category = "AI" ->
            MapExtend(common, [ai_provider |-> p, has_ai |-> JBool(TRUE)])
       [] service.category = "Api" ->
            MapExtend(common,
              [api_pattern |-> p, has_api |-> JBool(TRUE), api_type |-> p])
       [] OTHER ->
            MapInsert(common, "has_" \o CategoryKey(service.category), JBool(TRUE))

\* the user configuration of a selection under config_<key>
ConfigExports(exports, config) ==
  MapExtend(exports, [k \in {"config_" \o c : c \in DOMAIN config} |->
    config[CHOOSE c \in DOMAIN config : "config_" \o c = k]])

ServiceInfo(service, service_config) ==
  [provider |-> service.provider, config |-> service.config,
   exports |-> ConfigExports(CategoryExports(service, service_config), service.config)]

\* the services map after the selection loop
RECURSIVE ContextServices(_)
ContextServices(sels) ==
  IF sels = <<>> THEN EmptyMap
  ELSE LET service == Last(sels)
           key == CategoryKey(service.category)
           before == ContextServices(Front(sels))
       IN IF ServiceConfigExists(key, service.provider)
            THEN MapInsert(before, service.category,
                           ServiceInfo(service, ServiceConfig(key, service.provider)))
            ELSE before

BuildServiceContext(sels) ==
  LET by_category == ContextServices(sels)
  IN [services |-> by_category,
      shared_config |->
        [has_any_auth |-> JBool("Auth" \in DOMAIN by_category),
         has_any_database |-> JBool("Database" \in DOMAIN by_category),
         service_count |-> JNumber(Len(sels))]]

(***************************************************************************)
(* File collection (collect_files_recursive).                              *)
(***************************************************************************)
\* the ComposedFile pushed for one regular file
CollectedFile(relative_path, content, source) ==
  LET is_template == Extension(relative_path) = ".tera"
      output_path ==
        IF is_template
          THEN WithFileName(relative_path, TrimEndTera(FileName(relative_path)))
          ELSE relative_path
  IN ComposedFile(output_path, content, source, DefaultStrategy, is_template)

RECURSIVE CollectFilesRecursive(_, _, _)
CollectFilesRecursive(entries, prefix, source) ==
  IF entries = <<>> THEN <<>>
  ELSE LET e == Head(entries)
           here ==
             IF e.kind = "dir"
               THEN CollectFilesRecursive(e.children, prefix \o <<e.name>>, source)
             ELSE IF e.name = AnvilYaml THEN <<>>
             ELSE <<CollectedFile(prefix \o <<e.name>>, e.content, source)>>
       IN here \o CollectFilesRecursive(Tail(entries), prefix, source)

\* collect_base_template_files
CollectBaseTemplateFiles(name) ==
  CollectFilesRecursive(TemplateTree(name), <<>>, BaseTemplate)

\* collect_service_files, for a provider directory that exists
CollectServiceFiles(service) ==
  CollectFilesRecursive(
    ServiceTree(CategoryKey(service.category), service.provider), <<>>,
    Service(service.category, service.provider))

(***************************************************************************)
(* Condition evaluation (evaluate_condition, evaluate_simple_condition).   *)
(* A condition string is a sequence of tokens; "==", "&&", "||" and the    *)
(* prefixes "services." and "has_" are tokens, a blank is the token " ".   *)
(***************************************************************************)
Blank == {" "}
In == <<" ", "in", " ">>

\* str::split(sep): the pieces between the non-overlapping matches of sep
RECURSIVE Split(_, _)
Split(s, sep) ==
  LET hits == {i \in 1..(Len(s) - Len(sep) + 1) : SubSeq(s, i, i + Len(sep) - 1) = sep}
  IN IF hits = {} THEN <<s>>
     ELSE LET i == Min(hits)
          IN <<SubSeq(s, 1, i - 1)>> \o Split(SubSeq(s, i + Len(sep), Len(s)), sep)

\* s.trim().trim_matches('\'').trim_matches('"')
Unquote(s) == Trim(Trim(Trim(s, Blank), {"'"}), {"\""})

\* the context of apply_conditional_inclusion: "<category>" -> provider and
\* "has_<category>" -> "true" of every selection, later insertions replacing
\* earlier ones
RECURSIVE BuildConditionContext(_)
BuildConditionContext(sels) ==
  IF sels = <<>> THEN EmptyMap
  ELSE LET service == Last(sels)
           key == CategoryKey(service.category)
       IN MapInsert(
            MapInsert(BuildConditionContext(Front(sels)), <<key>>, <<service.provider>>),
            <<"has_", key>>, <<"true">>)

\* the equality branch: decided is FALSE when the branch falls through
EqualityBranch(cond, context) ==
  LET parts == Split(cond, <<"==">>)
      left == Trim(parts[1], Blank)
      right == Unquote(parts[2])
  IN IF Contains(cond, <<"==">>) /\ Len(parts) = 2 /\ StartsWith(left, <<"services.">>)
       THEN [decided |-> TRUE, value |-> MapGetIs(context, Tail(left), right)]
       ELSE [decided |-> FALSE, value |-> TRUE]

\* the membership branch
MembershipBranch(cond, context) ==
  LET parts == Split(cond, In)
      left == Trim(parts[1], Blank)
      right == Trim(parts[2], Blank)
      listed == Split(SubSeq(right, 2, Len(right) - 1), <<",">>)
      options == {Unquote(listed[i]) : i \in DOMAIN listed}
      service_type == Tail(left)
  IN IF /\ Contains(cond, In) /\ Len(parts) = 2
        /\ StartsWith(left, <<"services.">>)
        /\ StartsWith(right, <<"[">>) /\ EndsWith(right, <<"]">>)
       THEN [decided |-> TRUE,
             value |-> service_type \in DOMAIN context
                         /\ context[service_type] \in options]
       ELSE [decided |-> FALSE, value |-> TRUE]

\* evaluate_simple_condition
EvaluateSimpleCondition(raw, context) ==
  LET cond == Trim(raw, Blank)
      eq == EqualityBranch(cond, context)
      member == MembershipBranch(cond, context)
  IN IF eq.decided THEN eq.value
     ELSE IF member.decided THEN member.value
     ELSE IF StartsWith(cond, <<"has_">>) THEN MapGetIs(context, cond, <<"true">>)
     ELSE TRUE

\* evaluate_condition
EvaluateCondition(raw, context) ==
  LET cond == Trim(raw, Blank)
  IN IF Contains(cond, <<"&&">>)
       THEN LET parts == Split(cond, <<"&&">>)
            IN \A i \in DOMAIN parts :
                 EvaluateSimpleCondition(Trim(parts[i], Blank), context)
     ELSE IF Contains(cond, <<"||">>)
       THEN LET parts == Split(cond, <<"||">>)
            IN \E i \in DOMAIN parts :
                 EvaluateSimpleCondition(Trim(parts[i], Blank), context)
     ELSE EvaluateSimpleCondition(cond, context)

(***************************************************************************)
(* Conditional inclusion (apply_conditional_inclusion).                    *)
(***************************************************************************)
\* evaluate_implicit_conditions
EvaluateImplicitConditions(file, context) ==
  IF file.source.kind = "Service"
    THEN MapGetIs(context, <<CategoryKey(file.source.category)>>,
                  <<file.source.provider>>)
    ELSE TRUE

\* the conditional_files rules whose path is the file's, by position
MatchingRules(file, composition_config) ==
  {i \in DOMAIN composition_config.conditional_files :
     composition_config.conditional_files[i].path = file.path}

\* evaluate_file_conditions
EvaluateFileConditions(file, context, composition_config) ==
  LET matching == MatchingRules(file, composition_config)
  IN IF composition_config.some /\ matching # {}
       THEN EvaluateCondition(
              composition_config.conditional_files[Min(matching)].condition, context)
       ELSE EvaluateImplicitConditions(file, context)

\* apply_conditional_inclusion
ApplyConditionalInclusion(files, sels, composition_config) ==
  LET context == BuildConditionContext(sels)
      Keep(file) == EvaluateFileConditions(file, context, composition_config)
  IN SelectSeq(files, Keep)

(***************************************************************************)
(* Conflict resolution (resolve_file_conflicts, resolve_single_conflict,   *)
(* merge_json_files).                                                      *)
(***************************************************************************)
NoFile == ComposedFile(<<>>, <<>>, Merged, DefaultStrategy, FALSE)
Resolved(file) == [ok |-> TRUE, file |-> file, err |-> NoErr]
Failed(e) == [ok |-> FALSE, file |-> NoFile, err |-> e]

\* SortBaseFirst without the sort: the files in collection order
SortNotAtAll(files) == files

\* the stable sort of the Override strategy: base-template files before
\* service files, the order within each class kept
SortBaseFirst(files) ==
  LET IsBase(f) == f.source.kind = "BaseTemplate"
      NotBase(f) == f.source.kind # "BaseTemplate"
  IN SelectSeq(files, IsBase) \o SelectSeq(files, NotBase)

\* the contents of the files, each followed by a newline
RECURSIVE CombinedContent(_)
CombinedContent(files) ==
  IF files = <<>> THEN <<>>
  ELSE Head(files).content \o <<Newline>> \o CombinedContent(Tail(files))

\* the file the Append strategy builds
AppendFiles(path, files) ==
  ComposedFile(path, CombinedContent(files), Merged, "Append", FALSE)

\* MergeValue with the entries of the earlier contributor kept on a collision
MergeValueFirstWins(key, existing, value) ==
  IF key \in {"dependencies", "devDependencies"} /\ IsObject(existing) /\ IsObject(value)
    THEN JObj(MapExtend(value.o, existing.o))
    ELSE value

\* MergeValue with the dependency objects overwritten like any other field
MergeValueOverwrites(key, existing, value) == value

\* the value merged_json holds for a key both sides declare
MergeValue(key, existing, value) ==
  IF key \in {"dependencies", "devDependencies"} /\ IsObject(existing) /\ IsObject(value)
    THEN JObj(MapExtend(existing.o, value.o))
    ELSE value

\* one contributor merged into merged_json; a document that is no object is
\* passed over
MergeDocument(merged_json, json) ==
  IF IsObject(json)
    THEN [key \in DOMAIN merged_json \cup DOMAIN json.o |->
           IF key \notin DOMAIN json.o THEN merged_json[key]
           ELSE IF key \notin DOMAIN merged_json THEN json.o[key]
           ELSE MergeValue(key, merged_json[key], json.o[key])]
    ELSE merged_json

\* merged_json after the documents, in order
RECURSIVE MergeDocuments(_)
MergeDocuments(docs) ==
  IF docs = <<>> THEN EmptyMap
  ELSE MergeDocument(MergeDocuments(Front(docs)), Last(docs))

\* merge_json_files
MergeJsonFiles(path, files) ==
  LET parsed == [i \in DOMAIN files |-> ParseJson(files[i].content)]
  IN IF \E i \in DOMAIN files : ~parsed[i].ok
       THEN Failed(CompositionError("json", <<>>))
       ELSE Resolved(ComposedFile(path,
              ToStringPretty(MergeDocuments([i \in DOMAIN files |-> parsed[i].doc])),
              Merged, "Merge", FALSE))

\* resolve_single_conflict
ResolveSingleConflict(path, files, strategy) ==
  CASE strategy = "Override" -> Resolved(Last(SortBaseFirst(files)))
    [] strategy = "Append" -> Resolved(AppendFiles(path, files))
    [] strategy = "Merge" ->
         IF Extension(path) = ".json"
           THEN MergeJsonFiles(path, files)
           ELSE Resolved(AppendFiles(path, files))
    [] strategy = "Skip" -> Resolved(Head(files))

\* the entry of file_map for a path: its files in input order
GroupOf(files, path) ==
  LET AtPath(f) == f.path = path
  IN SelectSeq(files, AtPath)

\* the keys of file_map
PathsOf(files) == {files[i].path : i \in DOMAIN files}

\* the strategy resolve_file_conflicts applies
StrategyOf(composition_config) ==
  IF composition_config.some
    THEN composition_config.file_merging_strategy
    ELSE DefaultStrategy

\* ResolveGroup without the pass-through of a path with a single file
ResolveGroupNoPassThrough(path, group, composition_config) ==
  ResolveSingleConflict(path, group, StrategyOf(composition_config))

\* what resolve_file_conflicts does with one entry of file_map
ResolveGroup(path, group, composition_config) ==
  IF Len(group) = 1
    THEN Resolved(group[1])
    ELSE ResolveSingleConflict(path, group, StrategyOf(composition_config))

\* resolve_file_conflicts, the map iterated in the given order of its keys
ResolveFileConflicts(files, composition_config, order) ==
  LET each == [i \in DOMAIN order |->
                 ResolveGroup(order[i], GroupOf(files, order[i]), composition_config)]
      bad == {i \in DOMAIN each : ~each[i].ok}
  IN IF bad = {}
       THEN [ok |-> TRUE, files |-> [i \in DOMAIN each |-> each[i].file], err |-> NoErr]
       ELSE [ok |-> FALSE, files |-> <<>>, err |-> each[Min(bad)].err]

(***************************************************************************)
(* merge_dependencies                                                      *)
(***************************************************************************)
\* the manifests merge_dependencies loads: those of the selections whose
\* provider directory holds one, in selection order
RECURSIVE LoadedManifests(_)
LoadedManifests(sels) ==
  IF sels = <<>> THEN <<>>
  ELSE LET service == Head(sels)
           key == CategoryKey(service.category)
       IN (IF ServiceConfigExists(key, service.provider)
             THEN <<ServiceConfig(key, service.provider)>>
             ELSE <<>>) \o LoadedManifests(Tail(sels))

\* npm_dependencies after the loop
NpmDependencies(manifests) ==
  Flatten([i \in DOMAIN manifests |->
    LET deps == manifests[i].dependencies
    IN IF deps.some /\ deps.v.npm.some THEN deps.v.npm.v ELSE <<>>])

\* cargo_dependencies after the loop: a HashMap, extended manifest by manifest
RECURSIVE CargoDependencies(_)
CargoDependencies(manifests) ==
  IF manifests = <<>> THEN EmptyMap
  ELSE LET deps == Last(manifests).dependencies
           before == CargoDependencies(Front(manifests))
       IN IF deps.some /\ deps.v.cargo.some
            THEN MapExtend(before, deps.v.cargo.v)
            ELSE before

\* environment_variables after the loop
DeclaredEnvironmentVariables(manifests) ==
  Flatten([i \in DOMAIN manifests |-> manifests[i].environment_variables])

\* the {name, version} object of one npm entry
NpmEntry(dep) ==
  LET at == {i \in DOMAIN dep : dep[i] = "@"}
      Entry(name, version) ==
        JObj([name |-> JTokens(name), version |-> JTokens(version)])
  IN IF at # {} /\ dep[1] = "@" /\ Cardinality(at) >= 2
       THEN Entry(SubSeq(dep, 1, Max(at) - 1), SubSeq(dep, Max(at) + 1, Len(dep)))
     ELSE IF at # {} /\ dep[1] # "@"
       THEN Entry(SubSeq(dep, 1, Min(at) - 1), SubSeq(dep, Min(at) + 1, Len(dep)))
     ELSE Entry(dep, <<"^1.0.0">>)

\* the object of one environment variable
EnvironmentEntry(env_var) == JObj([name |-> JTokens(env_var.name)])

\* merge_dependencies: the keys npm, cargo and environment_variables, each
\* present when its collection is not empty
MergeDependencies(sels) ==
  LET manifests == LoadedManifests(sels)
      npm == NpmDependencies(manifests)
      cargo == CargoDependencies(manifests)
      envs == DeclaredEnvironmentVariables(manifests)
      with_npm ==
        IF npm # <<>>
          THEN MapInsert(EmptyMap, "npm", JArr([i \in DOMAIN npm |-> NpmEntry(npm[i])]))
          ELSE EmptyMap
      with_cargo ==
        IF DOMAIN cargo # {}
          THEN MapInsert(with_npm, "cargo", JObj([k \in DOMAIN cargo |-> JStr(cargo[k])]))
          ELSE with_npm
  IN IF envs # <<>>
       THEN MapInsert(with_cargo, "environment_variables",
              JArr([i \in DOMAIN envs |-> EnvironmentEntry(envs[i])]))
       ELSE with_cargo

(***************************************************************************)
(* compose_template: the inputs, and one action per step of the call.      *)
(***************************************************************************)
\* the selections a caller passes: valid providers, a declared provider
\* without a directory (okta), an undeclared provider (firebase) and a
\* category no template declares (Payments)
SelectionUniverse ==
  {ServiceSelection("Auth", "clerk"), ServiceSelection("Auth", "auth0"),
   ServiceSelection("Auth", "okta"), ServiceSelection("Auth", "firebase"),
   ServiceSelection("Database", "postgres"), ServiceSelection("Database", "mysql"),
   ServiceSelection("Api", "rest"), ServiceSelection("Api", "trpc"),
   ServiceSelection("Payments", "stripe")}

SelectionLists == SeqsUpTo(SelectionUniverse, MaxSelections)

NoConfig == TemplateConfig(<<>>, <<>>, NoComposition)
NoContext == [services |-> EmptyMap, shared_config |-> EmptyMap]
NoResult ==
  [some |-> FALSE, base_config |-> NoConfig, files |-> <<>>,
   merged_dependencies |-> EmptyMap, environment_variables |-> EmptyMap,
   service_context |-> NoContext]

\* collect_environment_variables
CollectEnvironmentVariables(sels) == EmptyMap

\* ComposeSteps with the files collected before the selections are validated
ComposeStepsCollectFirst ==
  <<"load", "collect_base", "collect_services", "validate", "context", "filter",
    "resolve", "aggregate">>

\* the order of the steps of compose_template
ComposeSteps ==
  <<"load", "validate", "context", "collect_base", "collect_services", "filter",
    "resolve", "aggregate">>

\* the step that follows step p when p succeeds
NextStep(p) ==
  LET i == CHOOSE k \in DOMAIN ComposeSteps : ComposeSteps[k] = p
  IN IF i = Len(ComposeSteps) THEN "done" ELSE ComposeSteps[i + 1]

Returned == pc \in {"done", "failed"}

IdleCondition == condition = <<>> /\ cond_result = [done |-> FALSE, value |-> FALSE]
NotResolved == [done |-> FALSE, ok |-> FALSE, files |-> <<>>, err |-> NoErr]
NotMerged == [done |-> FALSE, ok |-> FALSE, file |-> NoFile, err |-> NoErr]
IdleResolver ==
  r_files = <<>> /\ r_config = NoComposition /\ r_out = NotResolved /\ r_again = NotResolved
IdleJson == j_files = <<>> /\ j_out = NotMerged
NotDiscovered == [done |-> FALSE, providers |-> <<>>]
IdleDiscover == d_category = "" /\ d_dir = None /\ d_out = NotDiscovered
NotProcessed == [done |-> FALSE, ok |-> FALSE, files |-> <<>>, err |-> NoErr]
IdleRender == user_context = EmptyMap /\ processed = NotProcessed /\ rendered = {}
NoOptions == [force |-> FALSE, dry_run |-> FALSE]
IdleCreate ==
  /\ create_options = NoOptions
  /\ c_pc = "idle"
  /\ output_dir = "DoesNotExist"
  /\ c_err = ""
  /\ touched = FALSE
  /\ generated = FALSE
IdleCli == IdleDiscover /\ IdleRender /\ IdleCreate
NotCollected == [done |-> FALSE, files |-> <<>>]
NoSource == [category |-> "", provider |-> "", kind |-> ""]
IdleCollect == t_tree = <<>> /\ t_source = NoSource /\ t_out = NotCollected
NotParsed == [done |-> FALSE, name |-> <<>>, version |-> <<>>]
IdleNpm == n_dep = <<>> /\ n_out = NotParsed
NotFiltered == [done |-> FALSE, snake |-> <<>>, kebab |-> <<>>, pascal |-> <<>>,
                pascal_of_snake |-> <<>>, pascal_of_kebab |-> <<>>]
IdleFilter == f_input = <<>> /\ f_out = NotFiltered
NotLoaded == [done |-> FALSE, ok |-> FALSE, err |-> ""]
IdleManifest == m_config = <<>> /\ m_out = NotLoaded
NotGenerated == [pc |-> "idle", files_created |-> 0, bytes_written |-> 0, err |-> ""]
NoDisk == [dirs |-> {}, files |-> {}]
NoProgress == [callback |-> FALSE, calls |-> <<>>]
IdleGenerator ==
  /\ g_template = <<>>
  /\ g_dry_run = FALSE
  /\ g_disk = NoDisk
  /\ g_index = 0
  /\ g_progress = NoProgress
  /\ g_result = NotGenerated
IdleCalls == calls = <<>>
IdleUnits ==
  IdleCollect /\ IdleNpm /\ IdleFilter /\ IdleManifest /\ IdleGenerator /\ IdleCalls

\* the variables of a call before its first step
CallFresh ==
  /\ base_config = NoConfig
  /\ service_context = NoContext
  /\ composed_files = <<>>
  /\ svc_idx = 1
  /\ filtered_files = <<>>
  /\ resolved_files = <<>>
  /\ result = NoResult
  /\ err = NoErr
  /\ collect_started = FALSE

\* the state of a call that has not started
CallStart == pc = "load" /\ CallFresh

\* no call of compose_template is made
IdleCompose ==
  /\ template_name = ""
  /\ pc = "idle"
  /\ CallFresh
  /\ run = 1
  /\ first_result = [some |-> FALSE, result |-> NoResult, err |-> NoErr]

Init ==
  /\ template_name \in TemplateNames \cup {"missing"}
  /\ services \in SelectionLists
  /\ CallStart
  /\ run = 1
  /\ first_result = [some |-> FALSE, result |-> NoResult, err |-> NoErr]
  /\ IdleCondition /\ IdleResolver /\ IdleJson /\ IdleCli /\ IdleUnits

\* the call returns Err(e)
Fail(e) ==
  /\ pc' = "failed"
  /\ err' = e

\* TemplateConfig::from_file(<templates>/<template_name>/anvil.yaml)
LoadConfig ==
  /\ pc = "load"
  /\ IF template_name \in TemplateNames
       THEN /\ base_config' = TemplateManifest(template_name)
            /\ pc' = NextStep("load")
            /\ err' = err
       ELSE /\ Fail(FileError(<<template_name>>))
            /\ base_config' = base_config
  /\ UNCHANGED <<template_name, services, service_context, composed_files, svc_idx,
                 filtered_files, resolved_files, result, collect_started, run,
                 first_result, condVars, resolveVars, jsonVars, cliVars, unitVars>>

\* self.validate_service_selections(&base_config, &services).await?
Validate ==
  /\ pc = "validate"
  /\ LET e == ValidateServiceSelections(base_config, services)
     IN IF e = NoErr
          THEN pc' = NextStep("validate") /\ err' = err
          ELSE Fail(e)
  /\ UNCHANGED <<template_name, services, base_config, service_context,
                 composed_files, svc_idx, filtered_files, resolved_files, result,
                 collect_started, run, first_result, condVars, resolveVars, jsonVars, cliVars, unitVars>>

\* self.build_service_context(&services).await?
BuildContext ==
  /\ pc = "context"
  /\ service_context' = BuildServiceContext(services)
  /\ pc' = NextStep("context")
  /\ UNCHANGED <<template_name, services, base_config, composed_files, svc_idx,
                 filtered_files, resolved_files, result, err, collect_started, run,
                 first_result, condVars, resolveVars, jsonVars, cliVars, unitVars>>

\* self.collect_base_template_files(template_name).await?
CollectBase ==
  /\ pc = "collect_base"
  /\ composed_files' = CollectBaseTemplateFiles(template_name)
  /\ collect_started' = TRUE
  /\ svc_idx' = 1
  /\ pc' = NextStep("collect_base")
  /\ UNCHANGED <<template_name, services, base_config, service_context,
                 filtered_files, resolved_files, result, err, run, first_result,
                 condVars, resolveVars, jsonVars, cliVars, unitVars>>

\* one iteration of the loop over the services: collect_service_files and
\* composed_files.extend
CollectService ==
  /\ pc = "collect_services"
  /\ svc_idx <= Len(services)
  /\ LET service == services[svc_idx]
     IN IF ServicePathExists(CategoryKey(service.category), service.provider)
          THEN /\ composed_files' = composed_files \o CollectServiceFiles(service)
               /\ svc_idx' = svc_idx + 1
               /\ collect_started' = TRUE
               /\ UNCHANGED <<pc, err>>
          ELSE /\ Fail(CompositionError("collect",
                         <<service.category, service.provider>>))
               /\ UNCHANGED <<composed_files, svc_idx, collect_started>>
  /\ UNCHANGED <<template_name, services, base_config, service_context,
                 filtered_files, resolved_files, result, run, first_result,
                 condVars, resolveVars, jsonVars, cliVars, unitVars>>

\* the loop over the services ends
CollectDone ==
  /\ pc = "collect_services"
  /\ svc_idx > Len(services)
  /\ pc' = NextStep("collect_services")
  /\ UNCHANGED <<template_name, services, base_config, service_context,
                 composed_files, svc_idx, filtered_files, resolved_files, result,
                 err, collect_started, run, first_result, condVars, resolveVars,
                 jsonVars, cliVars, unitVars>>

\* self.apply_conditional_inclusion(composed_files, &services, &composition)
Filter ==
  /\ pc = "filter"
  /\ filtered_files' =
       ApplyConditionalInclusion(composed_files, services, base_config.composition)
  /\ pc' = NextStep("filter")
  /\ UNCHANGED <<template_name, services, base_config, service_context,
                 composed_files, svc_idx, resolved_files, result, err,
                 collect_started, run, first_result, condVars, resolveVars, jsonVars, cliVars, unitVars>>

\* self.resolve_file_conflicts(filtered_files, &composition).await?; the
\* HashMap that groups the files is iterated in an order the call does not
\* determine
Resolve ==
  /\ pc = "resolve"
  /\ \E order \in Orders(PathsOf(filtered_files)) :
       LET r == ResolveFileConflicts(filtered_files, base_config.composition, order)
       IN IF r.ok
            THEN /\ resolved_files' = r.files
                 /\ pc' = NextStep("resolve")
                 /\ err' = err
            ELSE /\ Fail(r.err)
                 /\ resolved_files' = resolved_files
  /\ UNCHANGED <<template_name, services, base_config, service_context,
                 composed_files, svc_idx, filtered_files, result, collect_started,
                 run, first_result, condVars, resolveVars, jsonVars, cliVars, unitVars>>

\* merge_dependencies, collect_environment_variables and the
\* Ok(ComposedTemplate { .. }) returned
Aggregate ==
  /\ pc = "aggregate"
  /\ result' =
       [some |-> TRUE, base_config |-> base_config, files |-> resolved_files,
        merged_dependencies |-> MergeDependencies(services),
        environment_variables |-> CollectEnvironmentVariables(services),
        service_context |-> service_context]
  /\ pc' = NextStep("aggregate")
  /\ UNCHANGED <<template_name, services, base_config, service_context,
                 composed_files, svc_idx, filtered_files, resolved_files, err,
                 collect_started, run, first_result, condVars, resolveVars, jsonVars, cliVars, unitVars>>

Next ==
  \/ LoadConfig
  \/ Validate
  \/ BuildContext
  \/ CollectBase
  \/ CollectService
  \/ CollectDone
  \/ Filter
  \/ Resolve
  \/ Aggregate

Spec == Init /\ [][Next]_vars

(***************************************************************************)
(* Two calls of compose_template with the same arguments, one after the    *)
(* other, on the unchanged filesystem.                                     *)
(***************************************************************************)
\* the first call has returned; the second starts
Rerun ==
  /\ Returned
  /\ run = 1
  /\ run' = 2
  /\ first_result' = [some |-> TRUE, result |-> result, err |-> err]
  /\ pc' = "load"
  /\ base_config' = NoConfig
  /\ service_context' = NoContext
  /\ composed_files' = <<>>
  /\ svc_idx' = 1
  /\ filtered_files' = <<>>
  /\ resolved_files' = <<>>
  /\ result' = NoResult
  /\ err' = NoErr
  /\ collect_started' = FALSE
  /\ UNCHANGED <<template_name, services, condVars, resolveVars, jsonVars, cliVars, unitVars>>

InitTwoCalls ==
  /\ Init
  /\ template_name \in {"test-app", "override-app"}

NextTwoCalls == Next \/ Rerun

SpecTwoCalls == InitTwoCalls /\ [][NextTwoCalls]_vars

(***************************************************************************)
(* Properties of compose_template.                                         *)
(***************************************************************************)
\* the checks of the selection validator, by the name their errors carry
ValidationChecks ==
  {"required", "category", "provider", "files", "conflict", "dependency",
   "language", "rules", "cross_auth", "cross_api"}

ValidationFailed ==
  pc = "failed" /\ err.type = "CompositionError" /\ err.check \in ValidationChecks

\* C1: when selection validation fails, the call has returned an error, no
\* file-collection step (base tree or service tree) has run before it and no
\* ComposedTemplate is produced.
C1_ValidationFailsBeforeCollection ==
  ValidationFailed =>
    /\ ~collect_started
    /\ composed_files = <<>>
    /\ ~result.some

\* C1 witness: a validation failure other than the first check, so that the
\* validator has gone through several checks before the call fails
C1_Witness ==
  ValidationFailed /\ err.check = "conflict" /\ Len(services) = 2

\* the required definitions of the template with no selection of their category
UnmetRequired ==
  LET defs == TemplateManifest(template_name).services
  IN {i \in DOMAIN defs :
        defs[i].required
          /\ \A k \in DOMAIN services : services[k].category # defs[i].category}

\* C2: if a required ServiceDefinition has no selection of its category, the
\* call fails with a CompositionError that names an unmet service and no file
\* is collected; if every required definition is met, the required-service
\* check does not fail.
C2_RequiredServices ==
  (Returned /\ template_name \in TemplateNames) =>
    IF UnmetRequired # {}
      THEN /\ pc = "failed"
           /\ err.type = "CompositionError"
           /\ err.check = "required"
           /\ \E i \in UnmetRequired :
                err.names = <<TemplateManifest(template_name).services[i].name>>
           /\ ~collect_started /\ composed_files = <<>>
      ELSE err.check # "required"

\* C2 witness: a template that requires auth, selections without it
C2_Witness ==
  /\ Returned /\ template_name = "test-app"
  /\ services = <<ServiceSelection("Database", "postgres")>>
  /\ err.check = "required" /\ err.names = <<"auth">>

\* the provider names selected in a category, as a set
SelectedProviders(category) ==
  {services[i].provider : i \in {k \in DOMAIN services : services[k].category = category}}

SelectedCount(category) ==
  Cardinality({k \in DOMAIN services : services[k].category = category})

\* C3: the call never succeeds with more than one Auth selection or more than
\* one Api selection; when the cross-service rule is the failing check, the
\* error lists the provider of every selection of the offending category.
C3_ExclusiveCategories ==
  /\ (SelectedCount("Auth") > 1 \/ SelectedCount("Api") > 1) => pc # "done"
  /\ (pc = "failed" /\ err.check = "cross_auth") =>
       /\ SelectedCount("Auth") > 1
       /\ Len(err.names) = SelectedCount("Auth")
       /\ Range(err.names) = SelectedProviders("Auth")
  /\ (pc = "failed" /\ err.check = "cross_api") =>
       /\ SelectedCount("Api") > 1
       /\ Len(err.names) = SelectedCount("Api")
       /\ Range(err.names) = SelectedProviders("Api")

\* C3 witness: clerk and auth0 selected together, rejected by the
\* cross-service rule with both names
C3_Witness ==
  /\ pc = "failed" /\ err.check = "cross_auth"
  /\ Range(err.names) = {"clerk", "auth0"}

\* C4 as claimed: a second call with the same arguments on the unchanged
\* filesystem returns the same ComposedTemplate as the first: the same list
\* of files with the same paths, content and provenance.
C4_Deterministic ==
  (run = 2 /\ pc = "done" /\ first_result.some /\ first_result.result.some) =>
    result.files = first_result.result.files

\* the explicit rule of a file, if any, holds
ExplicitRulePasses(file) ==
  LET rules == TemplateManifest(template_name).composition.conditional_files
      matching == {i \in DOMAIN rules : rules[i].path = file.path}
  IN matching = {}
       \/ EvaluateCondition(rules[Min(matching)].condition,
                            BuildConditionContext(services))

NoExplicitRule(file) ==
  LET rules == TemplateManifest(template_name).composition.conditional_files
  IN \A i \in DOMAIN rules : rules[i].path # file.path

\* the implicit rule as specified: base-template and merged files pass, a
\* service file passes iff its (category, provider) pair is a selection
ExactPairSelected(file) ==
  file.source.kind = "Service" =>
    \E i \in DOMAIN services :
      /\ services[i].category = file.source.category
      /\ services[i].provider = file.source.provider

Filtered == pc \in {"resolve", "aggregate", "done"}

Kept(file) == \E i \in DOMAIN filtered_files : filtered_files[i] = file

\* C6 as claimed: a collected file that no explicit rule matches is kept iff
\* it is a base-template or merged file, or a service file whose exact
\* (category, provider) pair is one of the selections.
C6_ServiceFilesOfSelectedPairsKept ==
  Filtered =>
    \A i \in DOMAIN composed_files :
      NoExplicitRule(composed_files[i]) =>
        (Kept(composed_files[i]) <=> ExactPairSelected(composed_files[i]))

\* C7 as claimed: a file is kept iff its explicit rule (if any) holds and the
\* implicit provenance rule passes.
C7_KeptIffBothSourcesPass ==
  Filtered =>
    \A i \in DOMAIN composed_files :
      Kept(composed_files[i]) <=>
        (ExplicitRulePasses(composed_files[i]) /\ ExactPairSelected(composed_files[i]))

(***************************************************************************)
(* The condition evaluator on its own: evaluate_condition applied to a     *)
(* condition string under the context of a selection list.                 *)
(***************************************************************************)
EqAuthClerk == <<"services.", "auth", " ", "==", " ", "'", "clerk", "'">>
EqDatabasePostgres == <<"services.", "database", "==", "\"", "postgres", "\"">>
InAuthList ==
  <<"services.", "auth", " ", "in", " ", "[", "'", "clerk", "'", ",", " ", "'",
    "auth0", "'", "]">>
InDatabaseList == <<"services.", "database", " ", "in", " ", "[", "'", "mysql", "'", "]">>
HasApi == <<"has_", "api">>
HasPayments == <<"has_", "payments">>

RecognisedLeaves ==
  {EqAuthClerk, EqDatabasePostgres, InAuthList, InDatabaseList, HasAuth,
   HasDatabase, HasApi, HasPayments, ApiIsTrpc}

\* strings that are none of the three leaf forms
UnrecognisedLeaves ==
  {<<>>,
   <<"always">>,
   <<"auth", " ", "==", " ", "'", "clerk", "'">>,
   <<"services.", "auth", " ", "!=", " ", "'", "clerk", "'">>,
   <<"services.", "auth", " ", "in", " ", "clerk">>,
   <<"services.", "auth", "==", "'", "clerk", "'", "==", "'", "auth0", "'">>,
   <<"!", "has_", "auth">>,
   <<"has_", "auth", " ", "==", " ", "true">>,
   <<"has_", "auth", " ", "in", " ", "clerk">>}

Leaves == RecognisedLeaves \cup UnrecognisedLeaves

\* the leaves joined in pairs by one connective
Joined(connective) ==
  {a \o <<" ", connective, " ">> \o b :
     a \in {HasAuth, HasDatabase, EqAuthClerk, <<"always">>,
            <<"has_", "auth", " ", "==", " ", "true">>},
     b \in {HasAuth, HasApi, InDatabaseList, <<"always">>}}

\* a disjunction as a part of a conjunction, and the reverse
Mixed ==
  {HasAuth \o <<" ", "||", " ">> \o HasDatabase \o <<" ", "&&", " ">> \o HasApi,
   HasApi \o <<" ", "&&", " ">> \o HasAuth \o <<" ", "||", " ">> \o HasDatabase,
   <<" ">> \o HasAuth \o <<" ">>}

ConditionUniverse == Leaves \cup Joined("&&") \cup Joined("||") \cup Mixed

NotEvaluated == [done |-> FALSE, value |-> FALSE]

InitCondition ==
  /\ IdleCompose
  /\ services \in SelectionLists
  /\ condition \in ConditionUniverse
  /\ cond_result = NotEvaluated
  /\ IdleResolver /\ IdleJson /\ IdleCli /\ IdleUnits

\* self.evaluate_condition(&conditional_file.condition, context).await
Evaluate ==
  /\ ~cond_result.done
  /\ cond_result' =
       [done |-> TRUE,
        value |-> EvaluateCondition(condition, BuildConditionContext(services))]
  /\ UNCHANGED <<composeVars, condition, resolveVars, jsonVars, cliVars, unitVars>>

NextCondition == Evaluate

SpecCondition == InitCondition /\ [][NextCondition]_vars

\* a token that is a plain word: no prefix, operator, quote, bracket or blank
IsWord(token) ==
  token \notin {"services.", "has_", "==", "!=", "&&", "||", "'", "\"", "[", "]",
                ",", " ", "in", "!"}

IsServiceRef(s) == Len(s) = 2 /\ s[1] = "services." /\ IsWord(s[2])

\* services.<category> == '<value>'
IsEqualityLeaf(c) ==
  LET parts == Split(c, <<"==">>)
      right == Trim(parts[2], Blank)
  IN /\ Len(parts) = 2
     /\ IsServiceRef(Trim(parts[1], Blank))
     /\ Len(right) = 3 /\ right[1] \in {"'", "\""} /\ right[3] = right[1]
     /\ IsWord(right[2])

\* services.<category> in [...]
IsMembershipLeaf(c) ==
  LET parts == Split(c, In)
      right == Trim(parts[2], Blank)
  IN /\ Len(parts) = 2
     /\ IsServiceRef(Trim(parts[1], Blank))
     /\ Len(right) >= 2 /\ Head(right) = "[" /\ Last(right) = "]"

\* has_<category>
IsPresenceLeaf(c) == Len(c) = 2 /\ c[1] = "has_" /\ IsWord(c[2])

IsRecognisedLeaf(c) ==
  LET leaf == Trim(c, Blank)
  IN IsEqualityLeaf(leaf) \/ IsMembershipLeaf(leaf) \/ IsPresenceLeaf(leaf)

HasConnective(c) == Contains(c, <<"&&">>) \/ Contains(c, <<"||">>)

\* C8 as claimed: a condition that is none of the three recognised leaf forms
\* evaluates to true; a conjunction whose recognised parts all hold is true
\* and a disjunction with an unrecognised part is true, so that an
\* unrecognised part alone never makes either false.
C8_FailOpen ==
  cond_result.done =>
    LET context == BuildConditionContext(services)
        conjuncts == Split(condition, <<"&&">>)
        disjuncts == Split(condition, <<"||">>)
    IN /\ (~HasConnective(condition) /\ ~IsRecognisedLeaf(condition))
            => cond_result.value
       /\ (Contains(condition, <<"&&">>) /\ ~Contains(condition, <<"||">>)
             /\ \A i \in DOMAIN conjuncts :
                  IsRecognisedLeaf(conjuncts[i])
                    => EvaluateSimpleCondition(conjuncts[i], context))
            => cond_result.value
       /\ (Contains(condition, <<"||">>) /\ ~Contains(condition, <<"&&">>)
             /\ \E i \in DOMAIN disjuncts : ~IsRecognisedLeaf(disjuncts[i]))
            => cond_result.value

(***************************************************************************)
(* The conflict resolver on its own: resolve_file_conflicts applied to a   *)
(* list of collected files, and applied again to what it returned.         *)
(***************************************************************************)
SrcDir == <<"src">>

\* files as collect_files_recursive produces them
ResolverFiles ==
  {CollectedFile(<<PackageJson>>, <<JsonText(BasePkg)>>, BaseTemplate),
   CollectedFile(<<PackageJson>>, <<JsonText(ClerkPkg)>>, Service("Auth", "clerk")),
   CollectedFile(<<PackageJson>>, <<Text("not json")>>, Service("Database", "postgres")),
   CollectedFile(<<ReadmeMd \o <<".tera">>>>, <<Text("# {{ project_name }}")>>, BaseTemplate),
   CollectedFile(<<ReadmeMd>>, <<Text("# clerk")>>, Service("Auth", "clerk")),
   CollectedFile(<<SrcDir, AuthTs>>, <<Text("export auth")>>, Service("Auth", "clerk"))}

ResolverConfigs ==
  {NoComposition} \cup {Composition(strategy, <<>>) : strategy \in FileMergingStrategy}

InitResolve ==
  /\ IdleCompose
  /\ services = <<>>
  /\ IdleCondition
  /\ r_files \in SeqsUpTo(ResolverFiles, MaxFiles)
  /\ r_config \in ResolverConfigs
  /\ r_out = NotResolved
  /\ r_again = NotResolved
  /\ IdleJson /\ IdleCli /\ IdleUnits

\* what a call of resolve_file_conflicts returns
ResolverCall(files, composition_config, order) ==
  LET out == ResolveFileConflicts(files, composition_config, order)
  IN [done |-> TRUE, ok |-> out.ok, files |-> out.files, err |-> out.err]

\* self.resolve_file_conflicts(files, composition_config).await
ResolveConflicts ==
  /\ ~r_out.done
  /\ \E order \in Orders(PathsOf(r_files)) :
       r_out' = ResolverCall(r_files, r_config, order)
  /\ UNCHANGED <<composeVars, condVars, r_files, r_config, r_again, jsonVars, cliVars, unitVars>>

\* the files returned are resolved once more
ResolveAgain ==
  /\ r_out.done /\ r_out.ok
  /\ ~r_again.done
  /\ \E order \in Orders(PathsOf(r_out.files)) :
       r_again' = ResolverCall(r_out.files, r_config, order)
  /\ UNCHANGED <<composeVars, condVars, r_files, r_config, r_out, jsonVars, cliVars, unitVars>>

NextResolve == ResolveConflicts \/ ResolveAgain

SpecResolve == InitResolve /\ [][NextResolve]_vars

\* the paths of the input with exactly one contributor
SingleContributorPaths(files) ==
  {path \in PathsOf(files) : Len(GroupOf(files, path)) = 1}

\* C5: a successful resolve_file_conflicts returns one file per distinct
\* output path of its input (the paths returned are pairwise distinct and
\* are the paths of the input), a path with a single contributor is returned
\* as that very file, and resolving the returned files again succeeds and
\* returns the same files, one per path.
C5_OneFilePerPath ==
  /\ (r_out.done /\ r_out.ok) =>
       /\ \A i, j \in DOMAIN r_out.files :
            i # j => r_out.files[i].path # r_out.files[j].path
       /\ PathsOf(r_out.files) = PathsOf(r_files)
       /\ \A path \in SingleContributorPaths(r_files) :
            \E i \in DOMAIN r_out.files :
              r_out.files[i] = GroupOf(r_files, path)[1]
  /\ r_again.done =>
       /\ r_again.ok
       /\ Len(r_again.files) = Len(r_out.files)
       /\ Range(r_again.files) = Range(r_out.files)

\* a conflict and a single contributor resolved, and resolved again
C5_Witness ==
  /\ r_again.done
  /\ Len(r_files) = 3
  /\ Cardinality(PathsOf(r_files)) = 2
  /\ SingleContributorPaths(r_files) # {}
  /\ StrategyOf(r_config) = "Append"
  /\ \E i \in DOMAIN r_out.files : r_out.files[i].source = Merged

(***************************************************************************)
(* The JSON merge on its own: merge_json_files applied to the contributors *)
(* of one .json output path.                                               *)
(***************************************************************************)
DevPkg ==
  JObj([devDependencies |-> JObj([types |-> JStr("2"), jest |-> JStr("29")]),
        private |-> JStr("true")])
StringDepsPkg == JObj([dependencies |-> JStr("none")])
ScalarDocument == JStr("package")

DependencyKeys == {"dependencies", "devDependencies"}

\* the contents contributed to package.json: objects, an object whose
\* dependencies value is no object, a document that is no object, and text
\* that is no JSON
JsonContents ==
  {<<JsonText(BasePkg)>>, <<JsonText(PostgresPkg), Newline>>, <<JsonText(ClerkPkg)>>,
   <<JsonText(DevPkg)>>, <<JsonText(StringDepsPkg)>>, <<JsonText(ScalarDocument)>>,
   <<Text("not json")>>}

JsonContributors ==
  {CollectedFile(<<PackageJson>>, content, Service("Auth", "clerk")) :
     content \in JsonContents}

\* resolve_single_conflict is called with two files or more
InitJson ==
  /\ IdleCompose
  /\ services = <<>>
  /\ IdleCondition
  /\ IdleResolver
  /\ j_files \in {files \in SeqsUpTo(JsonContributors, MaxContributors) : Len(files) >= 2}
  /\ j_out = NotMerged
  /\ IdleCli /\ IdleUnits

\* what a call of merge_json_files returns
MergeCall(files) ==
  LET out == MergeJsonFiles(<<PackageJson>>, files)
  IN [done |-> TRUE, ok |-> out.ok, file |-> out.file, err |-> out.err]

\* self.merge_json_files(path, files).await
MergeJson ==
  /\ ~j_out.done
  /\ j_out' = MergeCall(j_files)
  /\ UNCHANGED <<composeVars, condVars, resolveVars, j_files, cliVars, unitVars>>

NextJson == MergeJson

SpecJson == InitJson /\ [][NextJson]_vars

\* the document a file holds
DocumentOf(file) == ParseJson(file.content).doc

\* the files are JSON objects
AllObjects(files) ==
  \A i \in DOMAIN files :
    ParseJson(files[i].content).ok /\ IsObject(DocumentOf(files[i]))

\* every dependencies / devDependencies value the files declare is an object
ObjectDependencies(files) ==
  \A i \in DOMAIN files :
    IsObject(DocumentOf(files[i])) =>
      \A key \in DependencyKeys \cap DOMAIN DocumentOf(files[i]).o :
        IsObject(DocumentOf(files[i]).o[key])

\* the contributors that declare the top-level key
Declaring(files, key) ==
  {i \in DOMAIN files : key \in DOMAIN DocumentOf(files[i]).o}

\* the contributors that declare entry under the top-level key
DeclaringEntry(files, key, entry) ==
  {i \in Declaring(files, key) : entry \in DOMAIN DocumentOf(files[i]).o[key].o}

\* the keys of the object a merged file holds under a dependency key
MergedKeys(out, key) ==
  LET doc == DocumentOf(out.file)
  IN IF key \in DOMAIN doc.o /\ IsObject(doc.o[key]) THEN DOMAIN doc.o[key].o ELSE {}

\* C9: when two or more JSON objects whose dependencies / devDependencies
\* values are all objects are merged, the merged dependencies (and
\* devDependencies) object holds the union of the contributors' keys, each
\* key with the value of the last contributor that declares it, and every
\* other top-level key has the value of the last contributor declaring it.
C9_StructuralMerge ==
  (j_out.done /\ AllObjects(j_files) /\ ObjectDependencies(j_files)) =>
    /\ j_out.ok
    /\ LET merged == DocumentOf(j_out.file).o
       IN /\ DOMAIN merged = UNION {DOMAIN DocumentOf(j_files[i]).o : i \in DOMAIN j_files}
          /\ \A key \in DOMAIN merged :
               LET last == DocumentOf(j_files[Max(Declaring(j_files, key))]).o[key]
               IN IF key \in DependencyKeys
                    THEN /\ IsObject(merged[key])
                         /\ DOMAIN merged[key].o =
                              UNION {DOMAIN DocumentOf(j_files[i]).o[key].o :
                                       i \in Declaring(j_files, key)}
                         /\ \A entry \in DOMAIN merged[key].o :
                              merged[key].o[entry] =
                                DocumentOf(j_files[Max(DeclaringEntry(j_files, key, entry))])
                                  .o[key].o[entry]
                    ELSE merged[key] = last

\* three objects merged: react is declared twice with different versions,
\* pg and clerk once, and name twice
C9_Witness ==
  /\ j_out.done /\ j_out.ok
  /\ AllObjects(j_files) /\ ObjectDependencies(j_files)
  /\ Len(j_files) = 3
  /\ DocumentOf(j_files[1]) = PostgresPkg
  /\ DocumentOf(j_files[2]) = BasePkg
  /\ DocumentOf(j_files[3]) = ClerkPkg
  /\ MergedKeys(j_out, "dependencies") = {"pg", "react", "clerk"}

\* the key sets under the two dependency keys are those of the merge of
\* every rearrangement of the contributors
SameKeysInAnyOrder ==
  \A files \in Perms(j_files) :
    /\ MergeCall(files).ok = j_out.ok
    /\ j_out.ok =>
         \A key \in DependencyKeys :
           MergedKeys(MergeCall(files), key) = MergedKeys(j_out, key)

\* C10 as claimed: for any contributors to one structured output path,
\* merging them in any permutation yields the same set of keys under
\* dependencies and the same set of keys under devDependencies.
C10_KeySetsOrderIndependent == j_out.done => SameKeysInAnyOrder

\* C10 amended: the same, for contributors whose declared dependencies and
\* devDependencies values are all objects.
C10_KeySetsOrderIndependentOfObjects ==
  (j_out.done /\ ObjectDependencies(j_files)) => SameKeysInAnyOrder

\* three contributors with different dependency keys and a key (react)
\* declared twice, merged
C10_Witness ==
  /\ j_out.done /\ j_out.ok
  /\ ObjectDependencies(j_files)
  /\ Len(j_files) = 3
  /\ Cardinality(Range(j_files)) = 3
  /\ Declaring(j_files, "dependencies") = {1, 2, 3}
  /\ DeclaringEntry(j_files, "dependencies", "react") = {1, 2}
  /\ MergedKeys(j_out, "devDependencies") # {}

(***************************************************************************)
(* The order of the checks of the selection validator.                     *)
(***************************************************************************)
\* the definition the template declares for a category (the first one)
DeclaredFor(category) ==
  LET defs == TemplateManifest(template_name).services
      hits == {i \in DOMAIN defs : defs[i].category = category}
  IN IF hits = {} THEN {} ELSE {defs[Min(hits)]}

\* the categories of the selections, in lower case
SelectedKeys == {CategoryKey(services[i].category) : i \in DOMAIN services}

\* check 2 of a selection: its category is declared and its provider an option
BadCategoryOrProvider(service) ==
  \A def \in DeclaredFor(service.category) : service.provider \notin Range(def.options)

\* check 3 of a selection: its provider directory exists
MissingDirectory(service) ==
  <<CategoryKey(service.category), service.provider>> \notin ServiceDirs

\* check 4, as the validator decides it: a declared conflict is a selected category
DeclaredConflictSelected ==
  \E i \in DOMAIN services : \E def \in DeclaredFor(services[i].category) :
    def.conflicts.some /\ Range(def.conflicts.v) \cap SelectedKeys # {}

\* check 5, as the validator decides it: a declared dependency is not selected
DeclaredDependencyMissing ==
  \E i \in DOMAIN services : \E def \in DeclaredFor(services[i].category) :
    def.dependencies.some /\ Range(def.dependencies.v) \ SelectedKeys # {}

\* check 6, as the validator decides it: the tRPC provider outside TypeScript
LanguageUnmet ==
  /\ ServiceSelection("Api", "trpc") \in Range(services)
  /\ "typescript" \notin Range(DetectProjectLanguage(TemplateManifest(template_name)))

\* the numbers of the checks the selection list violates
ViolatedChecks ==
  {k \in 1..7 :
     CASE k = 1 -> UnmetRequired # {}
       [] k = 2 -> \E i \in DOMAIN services : BadCategoryOrProvider(services[i])
       [] k = 3 -> \E i \in DOMAIN services : MissingDirectory(services[i])
       [] k = 4 -> DeclaredConflictSelected
       [] k = 5 -> DeclaredDependencyMissing
       [] k = 6 -> LanguageUnmet
       [] k = 7 -> SelectedCount("Auth") > 1 \/ SelectedCount("Api") > 1}

\* the failures of a check
FailuresOf(k) ==
  CASE k = 1 -> {"required"}
    [] k = 2 -> {"category", "provider"}
    [] k = 3 -> {"files"}
    [] k = 4 -> {"conflict"}
    [] k = 5 -> {"dependency"}
    [] k = 6 -> {"language", "rules"}
    [] k = 7 -> {"cross_auth", "cross_api"}

FirstBadSelection ==
  services[Min({i \in DOMAIN services :
                  BadCategoryOrProvider(services[i]) \/ MissingDirectory(services[i])})]

OtherKeys(i) ==
  {CategoryKey(services[j].category) : j \in DOMAIN services \ {i}}

\* the conflicts list declared for some selection names the category of one
\* of the other selections
ConflictWithAnother ==
  \E i \in DOMAIN services : \E def \in DeclaredFor(services[i].category) :
    def.conflicts.some /\ Range(def.conflicts.v) \cap OtherKeys(i) # {}

\* the call has returned and checks 1 to n do not reject the selections
PassesChecksUpTo(n) ==
  /\ Returned /\ template_name \in TemplateNames
  /\ ViolatedChecks \cap (1..n) = {}

\* C14 as claimed: the conflict check rejects a selection list exactly when
\* the conflicts declared for some selection name the category of one of the
\* other selections; a selection is never in conflict with itself.
C14_ConflictWithOthersOnly ==
  PassesChecksUpTo(3) => (err.check = "conflict" <=> ConflictWithAnother)

\* the dependencies of some selection that no other selection provides
MissingAmongOthers ==
  UNION {UNION {{<<def.name, dependency>> :
                   dependency \in Range(def.dependencies.v) \ OtherKeys(i)} :
                def \in DeclaredFor(services[i].category)} :
         i \in DOMAIN services}

\* C15 as claimed: the dependency check passes only if each declared
\* dependency of every selection is the category of one of the other
\* selections; otherwise validation fails with a CompositionError naming the
\* service and the missing dependency.
C15_DependenciesAmongOthers ==
  (PassesChecksUpTo(3) /\ err.check # "conflict") =>
    IF MissingAmongOthers = {}
      THEN err.check # "dependency"
      ELSE /\ pc = "failed" /\ err.type = "CompositionError"
           /\ err.check = "dependency"
           /\ <<err.names[1], err.names[2]>> \in MissingAmongOthers

(***************************************************************************)
(* Language requirements.                                                  *)
(***************************************************************************)
\* the selections whose manifest declares a language the template does not have
DeclaredLanguageUnmet ==
  {i \in DOMAIN services :
     LET key == CategoryKey(services[i].category)
         manifest == ServiceConfig(key, services[i].provider)
         detected == Range(DetectProjectLanguage(TemplateManifest(template_name)))
     IN /\ ServiceConfigExists(key, services[i].provider)
        /\ manifest.language_requirements.some
        /\ ~(Range(manifest.language_requirements.v) \subseteq detected)}

\* C16 as claimed: a selected provider whose manifest declares
\* language_requirements is rejected with a CompositionError when a required
\* language is not in the set detected for the template, and is accepted on
\* this check when all its required languages are in that set.
C16_LanguageRequirements ==
  PassesChecksUpTo(5) =>
    IF DeclaredLanguageUnmet # {}
      THEN pc = "failed" /\ err.type = "CompositionError" /\ err.check \in FailuresOf(6)
      ELSE err.check \notin FailuresOf(6)

(***************************************************************************)
(* The service context of a composition.                                   *)
(***************************************************************************)
\* the context has an entry for the selection, with its provider, its
\* category and its configuration among the exports
HasEntryFor(context, service) ==
  /\ service.category \in DOMAIN context.services
  /\ LET exports == context.services[service.category].exports
     IN /\ "provider" \in DOMAIN exports /\ exports["provider"] = JStr(service.provider)
        /\ "category" \in DOMAIN exports /\ exports["category"] = JStr(service.category)
        /\ \A k \in DOMAIN service.config :
             /\ ("config_" \o k) \in DOMAIN exports
             /\ exports["config_" \o k] = service.config[k]

\* the shared facts say what the selections are
SharedFactsAgree(context, sels) ==
  /\ context.shared_config["has_any_auth"] = JBool(HasCategory(sels, "Auth"))
  /\ context.shared_config["has_any_database"] = JBool(HasCategory(sels, "Database"))
  /\ context.shared_config["service_count"] = JNumber(Len(sels))
  /\ Cardinality(DOMAIN context.services) = Len(sels)

\* C19 as claimed: the service context of a composition has an entry for
\* every selection under its category, with provider and category equal to
\* the selection's and its configuration under config_<key>, and the shared
\* facts agree with the selections.
C19_ContextConsistent ==
  pc = "done" =>
    /\ \A i \in DOMAIN services : HasEntryFor(result.service_context, services[i])
    /\ SharedFactsAgree(result.service_context, services)

(***************************************************************************)
(* The dependency aggregator.                                              *)
(***************************************************************************)
Ecosystems == {"npm", "cargo", "go", "python"}

\* the number of entries the manifest declares for an ecosystem
DeclaredIn(manifest, ecosystem) ==
  IF ~manifest.dependencies.some \/ ~manifest.dependencies.v[ecosystem].some
    THEN 0
    ELSE IF ecosystem = "cargo"
      THEN Cardinality(DOMAIN manifest.dependencies.v[ecosystem].v)
      ELSE Len(manifest.dependencies.v[ecosystem].v)

RECURSIVE DeclaredCount(_, _)
DeclaredCount(manifests, ecosystem) ==
  IF manifests = <<>> THEN 0
  ELSE DeclaredIn(Head(manifests), ecosystem) + DeclaredCount(Tail(manifests), ecosystem)

\* the number of elements of the merged entry of an ecosystem
MergedCount(merged, ecosystem) ==
  IF ecosystem \notin DOMAIN merged THEN 0
  ELSE IF merged[ecosystem].t = "arr" THEN Len(merged[ecosystem].o)
  ELSE Cardinality(DOMAIN merged[ecosystem].o)

\* C17 as claimed: for each ecosystem (npm, cargo, go, python) the merged
\* entry has exactly one element per dependency declared by the manifests of
\* the selected services: duplicates are kept and none is missing.
C17_AllDeclaredDependenciesMerged ==
  pc = "done" =>
    \A ecosystem \in Ecosystems :
      MergedCount(result.merged_dependencies, ecosystem) =
        DeclaredCount(LoadedManifests(services), ecosystem)

(***************************************************************************)
(* The merged environment variables.                                       *)
(***************************************************************************)
\* build_shared_context: the has_environment_variables flag of the
\* rendering context
HasEnvironmentVariables(composed) == DOMAIN composed.environment_variables # {}

\* C18 as claimed: the environment_variables of a composition hold every
\* environment variable declared by the manifests of the selected services,
\* and has_environment_variables is true exactly when some selected service
\* declares one.
C18_EnvironmentVariablesCollected ==
  pc = "done" =>
    LET declared == DeclaredEnvironmentVariables(LoadedManifests(services))
    IN /\ \A i \in DOMAIN declared :
            \E name \in DOMAIN result.environment_variables :
              name = declared[i].name
       /\ HasEnvironmentVariables(result) <=> declared # <<>>

(***************************************************************************)
(* discover_service_providers, on a category directory given as the set of *)
(* its entries.                                                            *)
(***************************************************************************)
\* an entry of the category directory
DirEntry(name, is_dir, has_config) ==
  [name |-> name, is_dir |-> is_dir, has_config |-> has_config]

\* the entries a category directory is made of
DirEntries ==
  {DirEntry("clerk", TRUE, TRUE), DirEntry("auth0", TRUE, TRUE),
   DirEntry("zitadel", TRUE, TRUE), DirEntry("Okta", TRUE, TRUE),
   DirEntry("draft", TRUE, FALSE), DirEntry("README.md", FALSE, FALSE)}

DiscoveredCategories == {"Auth", "Payments"}

\* the byte order of the strings that can reach the provider list
ByteOrder == <<"Okta", "README.md", "auth0", "clerk", "draft", "none", "zitadel">>

StringLeq(a, b) ==
  LET Rank(x) == CHOOSE i \in DOMAIN ByteOrder : ByteOrder[i] = x
  IN Rank(a) <= Rank(b)

\* Vec<String>::sort
RECURSIVE SortStrings(_)
SortStrings(names) ==
  IF names = <<>> THEN <<>>
  ELSE LET least == CHOOSE i \in DOMAIN names :
                      /\ \A j \in DOMAIN names : StringLeq(names[i], names[j])
                      /\ \A j \in 1..(i - 1) : names[j] # names[i]
           rest == [j \in 1..(Len(names) - 1) |->
                      IF j < least THEN names[j] ELSE names[j + 1]]
       IN <<names[least]>> \o SortStrings(rest)

\* the loop over read_dir, which yields the entries in the order `order`
RECURSIVE PushProviders(_, _)
PushProviders(providers, order) ==
  IF order = <<>> THEN providers
  ELSE LET entry == Head(order)
       IN PushProviders(
            IF entry.is_dir /\ entry.has_config
              THEN Append(providers, entry.name)
              ELSE providers,
            Tail(order))

DiscoverServiceProviders(dir, order) ==
  IF ~dir.some THEN <<"none">> ELSE SortStrings(PushProviders(<<"none">>, order))

InitDiscover ==
  /\ IdleCompose
  /\ services = <<>>
  /\ IdleCondition /\ IdleResolver /\ IdleJson /\ IdleRender /\ IdleCreate /\ IdleUnits
  /\ d_category \in DiscoveredCategories
  /\ d_dir \in {None} \cup {Some(entries) : entries \in SUBSET DirEntries}
  /\ d_out = NotDiscovered

\* self.discover_service_providers(category).await
Discover ==
  /\ ~d_out.done
  /\ \E order \in Orders(IF d_dir.some THEN d_dir.v ELSE {}) :
       d_out' = [done |-> TRUE, providers |-> DiscoverServiceProviders(d_dir, order)]
  /\ UNCHANGED <<composeVars, condVars, resolveVars, jsonVars, d_category, d_dir,
                 renderVars, createVars, unitVars>>

NextDiscover == Discover

SpecDiscover == InitDiscover /\ [][NextDiscover]_vars

\* the sub-directories of the category directory that hold a manifest
ProviderNames(dir) ==
  {entry.name : entry \in {e \in dir.v : e.is_dir /\ e.has_config}}

\* C20 as claimed: the list returned starts with "none", followed by exactly
\* the names of the sub-directories that hold a manifest; for a missing
\* category directory it is exactly <<"none">>.
C20_SentinelFirst ==
  d_out.done =>
    IF ~d_dir.some
      THEN d_out.providers = <<"none">>
      ELSE /\ d_out.providers # <<>>
           /\ Head(d_out.providers) = "none"
           /\ Range(Tail(d_out.providers)) = ProviderNames(d_dir)
           /\ Len(d_out.providers) = 1 + Cardinality(ProviderNames(d_dir))

(***************************************************************************)
(* process_composed_template                                               *)
(***************************************************************************)
ProcessingError(names) == [type |-> "ProcessingError", check |-> "", names |-> names]

\* serde_yaml::Value, as far as the variables of a Context use it
YString(s) == [kind |-> "String", s |-> s, n |-> 0]
YNumber(n) == [kind |-> "Number", s |-> "", n |-> n]
YBool(b) == [kind |-> "Bool", s |-> IF b THEN "true" ELSE "false", n |-> 0]
YMapping == [kind |-> "Mapping", s |-> "", n |-> 0]

\* the user Contexts of a call: project_name is always set
Contexts ==
  {[project_name |-> YString("demo")],
   [project_name |-> YString("demo"), key |-> YString("pk_1")]}

\* build_shared_context: the names defined in the rendering context, the user
\* variables and the utility flags
BuildSharedContext(variables, composed) ==
  [names |->
     DOMAIN variables
       \cup {"features", "template", "build", "merged_dependencies",
             "environment_variables", "active_services", "has_services",
             "has_dependencies", "has_environment_variables"}
       \cup DOMAIN composed.service_context.shared_config,
   variables |-> variables,
   has_services |-> DOMAIN composed.service_context.services # {},
   has_dependencies |-> DOMAIN composed.merged_dependencies # {},
   has_environment_variables |-> HasEnvironmentVariables(composed)]

\* the variable a text of the templates refers to, "" if it has no expression
ExpressionOf(text) ==
  CASE text = "# {{ project_name }}" -> "project_name"
    [] text = "postgres {{ project_name }}" -> "project_name"
    [] text = "clerk {{ key }}" -> "key"
    [] OTHER -> ""

\* the text an expression was replaced in
Rendered(text, value) ==
  [t |-> "rendered", s |-> text,
   doc |-> IF value.kind = "Number" THEN JNumber(value.n) ELSE JStr(value.s)]

\* Tera::render_str on one chunk: an expression over an undefined variable is
\* an error, text without an expression is returned as it is
RenderChunk(chunk, tera_context) ==
  LET variable == ExpressionOf(chunk.s)
  IN IF chunk.t # "text" \/ variable = "" THEN [ok |-> TRUE, chunk |-> chunk]
     ELSE IF variable \in DOMAIN tera_context.variables
       THEN [ok |-> TRUE, chunk |-> Rendered(chunk.s, tera_context.variables[variable])]
     ELSE [ok |-> FALSE, chunk |-> chunk]

\* Tera::render_str
RenderStr(content, tera_context) ==
  LET chunks == [i \in DOMAIN content |-> RenderChunk(content[i], tera_context)]
  IN [ok |-> \A i \in DOMAIN chunks : chunks[i].ok,
      content |-> [i \in DOMAIN chunks |-> chunks[i].chunk]]

\* the content of every file goes through the evaluator
ProcessedContentRenderAll(composed_file, tera_context) ==
  [ok |-> RenderStr(composed_file.content, tera_context).ok,
   content |-> RenderStr(composed_file.content, tera_context).content,
   rendered |-> TRUE]

\* processed_content: rendered when the file is a template
ProcessedContent(composed_file, tera_context) ==
  IF composed_file.is_template
    THEN [ok |-> RenderStr(composed_file.content, tera_context).ok,
          content |-> RenderStr(composed_file.content, tera_context).content,
          rendered |-> TRUE]
    ELSE [ok |-> TRUE, content |-> composed_file.content, rendered |-> FALSE]

ExecutableExtensions == {".sh", ".py", ".rb", ".pl"}
ExecutableNames == {<<"gradlew">>, <<"mvnw">>, <<"install">>, <<"configure">>, <<"bootstrap">>}

\* should_be_executable
ShouldBeExecutable(path) ==
  IF Extension(path) # ""
    THEN Extension(path) \in ExecutableExtensions
    ELSE FileName(path) \in ExecutableNames

ProcessedFile(output_path, content, executable) ==
  [output_path |-> output_path, content |-> content, executable |-> executable]

\* the loop of process_composed_template over the first n files: the files
\* pushed, the paths handed to the evaluator, and the error that ended it
RECURSIVE ProcessFiles(_, _, _)
ProcessFiles(files, n, tera_context) ==
  IF n = 0 THEN [ok |-> TRUE, files |-> <<>>, rendered |-> {}, err |-> NoErr]
  ELSE LET before == ProcessFiles(files, n - 1, tera_context)
           composed_file == files[n]
           out == ProcessedContent(composed_file, tera_context)
           handed == IF out.rendered THEN {composed_file.path} ELSE {}
       IN IF ~before.ok THEN before
          ELSE IF ~out.ok
            THEN [ok |-> FALSE, files |-> <<>>,
                  rendered |-> before.rendered \cup handed,
                  err |-> ProcessingError(composed_file.path)]
          ELSE [ok |-> TRUE,
                files |-> Append(before.files,
                            ProcessedFile(composed_file.path, out.content,
                                          ShouldBeExecutable(composed_file.path))),
                rendered |-> before.rendered \cup handed,
                err |-> NoErr]

ProcessComposedTemplate(composed, variables) ==
  ProcessFiles(composed.files, Len(composed.files),
               BuildSharedContext(variables, composed))

InitRender ==
  /\ template_name \in TemplateNames \cup {"missing"}
  /\ services \in SelectionLists
  /\ CallStart
  /\ run = 1
  /\ first_result = [some |-> FALSE, result |-> NoResult, err |-> NoErr]
  /\ IdleCondition /\ IdleResolver /\ IdleJson /\ IdleDiscover /\ IdleCreate /\ IdleUnits
  /\ user_context \in Contexts
  /\ processed = NotProcessed
  /\ rendered = {}

\* engine.process_composed_template(composed, &context).await
Process ==
  /\ pc = "done"
  /\ ~processed.done
  /\ LET out == ProcessComposedTemplate(result, user_context)
     IN /\ processed' = [done |-> TRUE, ok |-> out.ok, files |-> out.files, err |-> out.err]
        /\ rendered' = out.rendered
  /\ UNCHANGED <<composeVars, condVars, resolveVars, jsonVars, discoverVars,
                 user_context, createVars, unitVars>>

NextRender == Next \/ Process

SpecRender == InitRender /\ [][NextRender]_vars

(***************************************************************************)
(* Round trip of the static files.                                         *)
(***************************************************************************)
\* the collected files whose name has no .tera suffix
StaticCollected == {i \in DOMAIN composed_files : ~composed_files[i].is_template}

\* the file is in the output with its path and its content
InOutput(file) ==
  \E j \in DOMAIN processed.files :
    /\ processed.files[j].output_path = file.path
    /\ processed.files[j].content = file.content

\* only files marked is_template were handed to the evaluator
OnlyTemplatesRendered ==
  rendered \subseteq {result.files[j].path :
                        j \in {k \in DOMAIN result.files : result.files[k].is_template}}

\* C11 as claimed: after process_composed_template every collected file
\* without the .tera suffix is in the output with the same path and the same
\* content, and no file that is not marked is_template was rendered.
C11_StaticRoundTrip ==
  processed.done =>
    /\ processed.ok => \A i \in StaticCollected : InOutput(composed_files[i])
    /\ OnlyTemplatesRendered

\* the file is kept by the conditional filter and is the one kept file of its
\* output path (a provider selected twice contributes its files twice)
KeptAlone(file) ==
  /\ file \in Range(filtered_files)
  /\ Cardinality({k \in DOMAIN filtered_files : filtered_files[k].path = file.path}) = 1

\* C11 amended: every file of the composed template that is not marked
\* is_template, and so every collected file without the suffix that the
\* filter keeps as the only file of its output path, is in the output of a
\* successful process_composed_template with the same path and content; no
\* file that is not marked is_template is ever rendered.
C11_StaticRoundTripOfComposed ==
  processed.done =>
    /\ processed.ok =>
         /\ \A j \in DOMAIN result.files :
              ~result.files[j].is_template => InOutput(result.files[j])
         /\ \A i \in StaticCollected :
              KeptAlone(composed_files[i]) => InOutput(composed_files[i])
    /\ OnlyTemplatesRendered

C11_Witness ==
  /\ processed.done /\ processed.ok
  /\ rendered # {}
  /\ \E i \in StaticCollected :
       /\ KeptAlone(composed_files[i])
       /\ composed_files[i].content = <<Text("postgres {{ project_name }}")>>
       /\ InOutput(composed_files[i])
  /\ \E i \in StaticCollected : ~KeptAlone(composed_files[i])

(***************************************************************************)
(* The create command (create_project).                                    *)
(***************************************************************************)
\* VariableType
StringType(min_length, max_length) ==
  [type |-> "String", min_length |-> min_length, max_length |-> max_length,
   options |-> <<>>, min |-> None, max |-> None]
BooleanType ==
  [type |-> "Boolean", min_length |-> 0, max_length |-> None,
   options |-> <<>>, min |-> None, max |-> None]
ChoiceType(choices) ==
  [type |-> "Choice", min_length |-> 0, max_length |-> None,
   options |-> choices, min |-> None, max |-> None]
NumberType(min, max) ==
  [type |-> "Number", min_length |-> 0, max_length |-> None,
   options |-> <<>>, min |-> min, max |-> max]

TemplateVariable(name, var_type, default, required) ==
  [name |-> name, var_type |-> var_type, default |-> default, required |-> required]

\* the variables section of the manifest of a template
TemplateVariables(name) ==
  CASE name = "test-app" ->
         <<TemplateVariable("project_name", StringType(1, Some(5)), None, TRUE),
           TemplateVariable("license", ChoiceType(<<"MIT", "Apache">>),
                            Some(YString("MIT")), FALSE)>>
    [] name = "optional-app" ->
         <<TemplateVariable("port", NumberType(Some(1), Some(65535)),
                            Some(YNumber(8080)), FALSE),
           TemplateVariable("author_name", StringType(0, None), None, FALSE),
           TemplateVariable("private", BooleanType, Some(YBool(TRUE)), FALSE)>>
    [] name = "rust-api" ->
         <<TemplateVariable("license", ChoiceType(<<"MIT", "Apache">>), None, TRUE)>>
    [] name = "override-app" ->
         <<TemplateVariable("domain", StringType(0, Some(5)), None, FALSE)>>
    [] OTHER -> <<>>

\* str::len of the strings of the contexts
StrLen(s) ==
  CASE s = "" -> 0
    [] s = "MIT" -> 3
    [] s = "demo" -> 4
    [] s = "pk_1" -> 4
    [] s = "longer-demo" -> 11
    [] s = "myapp.com" -> 9
    [] s = "A modern SaaS application" -> 25

VariableError(names) == [type |-> "VariableError", check |-> "", names |-> names]

\* TemplateVariable::validate_value
ValidateValue(variable, value) ==
  LET t == variable.var_type
  IN CASE t.type = "String" /\ value.kind = "String" ->
            /\ StrLen(value.s) >= t.min_length
            /\ t.max_length.some => StrLen(value.s) <= t.max_length.v
       [] t.type = "Boolean" /\ value.kind = "Bool" -> TRUE
       [] t.type = "Number" /\ value.kind = "Number" ->
            /\ t.min.some => value.n >= t.min.v
            /\ t.max.some => value.n <= t.max.v
       [] t.type = "Choice" /\ value.kind = "String" ->
            value.s \in Range(t.options)
       [] OTHER -> FALSE

\* validate_context: the first variable that is required and absent, or whose
\* value is not valid, fails the call
ValidateContext(variables, config_variables) ==
  LET Bad(i) ==
        \/ config_variables[i].required /\ config_variables[i].name \notin DOMAIN variables
        \/ /\ config_variables[i].name \in DOMAIN variables
           /\ ~ValidateValue(config_variables[i], variables[config_variables[i].name])
      bad == {i \in DOMAIN config_variables : Bad(i)}
  IN IF bad = {} THEN NoErr
     ELSE VariableError(<<config_variables[Min(bad)].name>>)

\* the value build_context gives a variable without a default
SensibleDefault(name) ==
  CASE name = "project_description" -> YString("A modern SaaS application")
    [] name = "author_name" -> YString("")
    [] name = "domain" -> YString("myapp.com")
    [] OTHER -> YString("")

\* build_context: project_name, every variable of the manifest with its
\* default, and the services object
RECURSIVE ContextVariables(_, _)
ContextVariables(config_variables, opts) ==
  IF config_variables = <<>>
    THEN [project_name |-> YString(opts.name)]
    ELSE LET variable == Last(config_variables)
             before == ContextVariables(Front(config_variables), opts)
         IN IF variable.name # "project_name"
              THEN MapInsert(before, variable.name,
                     IF variable.default.some THEN variable.default.v
                     ELSE SensibleDefault(variable.name))
              ELSE before

BuildUserContext(config_variables, opts) ==
  MapInsert(ContextVariables(config_variables, opts), "services", YMapping)

\* collect_service_selections: the providers given on the command line
CollectServiceSelections(opts) ==
  (IF opts.auth.some THEN <<ServiceSelection("Auth", opts.auth.v)>> ELSE <<>>)
    \o (IF opts.payments.some THEN <<ServiceSelection("Payments", opts.payments.v)>> ELSE <<>>)
    \o (IF opts.database.some THEN <<ServiceSelection("Database", opts.database.v)>> ELSE <<>>)

\* process_template: the files of the template directory, those with the
\* .tera suffix rendered with the variables of the user context
ProcessTemplate(name, variables) ==
  LET template_files == CollectBaseTemplateFiles(name)
  IN ProcessFiles(template_files, Len(template_files), [variables |-> variables])

CreateOptions(name, template, force, dry_run, auth, payments, database) ==
  [name |-> name, template |-> template, force |-> force, dry_run |-> dry_run,
   auth |-> auth, payments |-> payments, database |-> database]

\* the command lines of the create command, given with --no-input
CommandLines ==
  {CreateOptions(name, template, force, dry_run, auth, None, database) :
     name \in {"demo", "longer-demo"},
     template \in {"test-app", "optional-app", "rust-api", "override-app",
                   "conflict-app", "missing"},
     force \in BOOLEAN, dry_run \in BOOLEAN,
     auth \in {None, Some("clerk"), Some("okta")},
     database \in {None, Some("postgres"), Some("mysql")}}
    \cup {CreateOptions("demo", "optional-app", force, FALSE, None, Some("stripe"), None) :
            force \in BOOLEAN}

DirectoryStatus == {"DoesNotExist", "ExistsEmpty", "ExistsWithContent"}

InitCreate ==
  /\ IdleCompose
  /\ services = <<>>
  /\ IdleCondition /\ IdleResolver /\ IdleJson /\ IdleDiscover /\ IdleRender /\ IdleUnits
  /\ create_options \in CommandLines
  /\ c_pc = "start"
  /\ output_dir \in DirectoryStatus
  /\ c_err = ""
  /\ touched = FALSE
  /\ generated = FALSE

\* create_project returns Err(anyhow!(message))
CreateFail(message) ==
  /\ c_pc' = "failed"
  /\ c_err' = message

\* find_template_directory, TemplateConfig::from_file and build_context
CreateStart ==
  /\ c_pc = "start"
  /\ IF create_options.template \in TemplateNames
       THEN /\ user_context' =
                 BuildUserContext(TemplateVariables(create_options.template),
                                  create_options)
            /\ c_pc' = "check"
            /\ c_err' = c_err
       ELSE /\ CreateFail("Template not found")
            /\ user_context' = user_context
  /\ UNCHANGED <<composeVars, condVars, resolveVars, jsonVars, discoverVars,
                 processed, rendered, create_options, output_dir, touched, generated, unitVars>>

\* check_output_directory and the match on its status, with
\* clean_output_directory (remove_dir_all, create_dir_all) under --force
CreateCheckDirectory ==
  /\ c_pc = "check"
  /\ IF output_dir = "ExistsWithContent" /\ ~create_options.force
       THEN /\ CreateFail("Output directory is not empty")
            /\ UNCHANGED <<output_dir, touched>>
       ELSE /\ c_pc' = "validate"
            /\ c_err' = c_err
            /\ IF output_dir = "ExistsWithContent" /\ ~create_options.dry_run
                 THEN output_dir' = "ExistsEmpty" /\ touched' = TRUE
                 ELSE UNCHANGED <<output_dir, touched>>
  /\ UNCHANGED <<composeVars, condVars, resolveVars, jsonVars, discoverVars,
                 renderVars, create_options, generated, unitVars>>

\* engine.validate_context(&context, &template_config)
CreateValidateContext ==
  /\ c_pc = "validate"
  /\ IF ValidateContext(user_context, TemplateVariables(create_options.template)) = NoErr
       THEN c_pc' = "select" /\ c_err' = c_err
       ELSE CreateFail("Context validation failed")
  /\ UNCHANGED <<composeVars, condVars, resolveVars, jsonVars, discoverVars,
                 renderVars, create_options, output_dir, touched, generated, unitVars>>

\* collect_service_selections_interactive and the choice between
\* compose_template and process_template
CreateSelect ==
  /\ c_pc = "select"
  /\ LET selected == CollectServiceSelections(create_options)
     IN IF selected # <<>>
          THEN /\ template_name' = create_options.template
               /\ services' = selected
               /\ pc' = "load"
               /\ c_pc' = "compose"
          ELSE /\ c_pc' = "process"
               /\ UNCHANGED <<template_name, services, pc>>
  /\ UNCHANGED <<base_config, service_context, composed_files, svc_idx,
                 filtered_files, resolved_files, result, err, collect_started,
                 run, first_result, condVars, resolveVars, jsonVars,
                 discoverVars, renderVars, create_options, output_dir, c_err,
                 touched, generated, unitVars>>

\* engine.process_template(&template_dir, &context).await
CreateProcessTemplate ==
  /\ c_pc = "process"
  /\ LET out == ProcessTemplate(create_options.template, user_context)
     IN /\ processed' = [done |-> TRUE, ok |-> out.ok, files |-> out.files, err |-> out.err]
        /\ rendered' = out.rendered
        /\ IF out.ok
             THEN c_pc' = "generate" /\ c_err' = c_err
             ELSE CreateFail("Template processing failed")
  /\ UNCHANGED <<composeVars, condVars, resolveVars, jsonVars, discoverVars,
                 user_context, create_options, output_dir, touched, generated, unitVars>>

\* compose_template returned Err
CreateComposeFailed ==
  /\ c_pc = "compose"
  /\ pc = "failed"
  /\ CreateFail("Template composition failed")
  /\ UNCHANGED <<composeVars, condVars, resolveVars, jsonVars, discoverVars,
                 renderVars, create_options, output_dir, touched, generated, unitVars>>

\* process_composed_template returned
CreateProcessed ==
  /\ c_pc = "compose"
  /\ processed.done
  /\ IF processed.ok
       THEN c_pc' = "generate" /\ c_err' = c_err
       ELSE CreateFail("Template processing failed")
  /\ UNCHANGED <<composeVars, condVars, resolveVars, jsonVars, discoverVars,
                 renderVars, create_options, output_dir, touched, generated, unitVars>>

\* generator.generate_files(processed_template, progress_callback).await
CreateGenerate ==
  /\ c_pc = "generate"
  /\ generated' = TRUE
  /\ IF create_options.dry_run
       THEN UNCHANGED <<output_dir, touched>>
       ELSE /\ output_dir' =
                 IF processed.files # <<>> THEN "ExistsWithContent"
                 ELSE IF output_dir = "DoesNotExist" THEN "ExistsEmpty"
                 ELSE output_dir
            /\ touched' = (touched \/ output_dir' # output_dir)
  /\ c_pc' = "ok"
  /\ UNCHANGED <<composeVars, condVars, resolveVars, jsonVars, discoverVars,
                 renderVars, create_options, c_err, unitVars>>

NextCreate ==
  \/ CreateStart
  \/ CreateCheckDirectory
  \/ CreateValidateContext
  \/ CreateSelect
  \/ CreateProcessTemplate
  \/ Next
  \/ CreateComposeFailed
  \/ Process
  \/ CreateProcessed
  \/ CreateGenerate

SpecCreate == InitCreate /\ [][NextCreate]_vars

\* the create command failed in context validation or in the validation of
\* the service selections
CreateValidationFailed ==
  /\ c_pc = "failed"
  /\ \/ c_err = "Context validation failed"
     \/ c_err = "Template composition failed" /\ ValidationFailed

\* C12 as claimed: when the create command fails in context validation or in
\* selection validation nothing under the output directory has been created,
\* modified or removed, also under --force with a directory that has
\* content; and generate_files is invoked only after composition and
\* rendering have succeeded.
C12_ValidationAbortsUntouched ==
  /\ CreateValidationFailed => ~touched
  /\ generated =>
       /\ processed.done /\ processed.ok
       /\ services # <<>> => pc = "done"

(***************************************************************************)
(* The Override and the Append strategy.                                   *)
(***************************************************************************)
\* the paths of the input with two or more contributors
ConflictPaths(files) == {path \in PathsOf(files) : Len(GroupOf(files, path)) >= 2}

\* the file returned for a path
ResolvedAt(path) ==
  LET AtPath(f) == f.path = path
  IN SelectSeq(r_out.files, AtPath)

\* the last service file of the group, the last file if it has none
OverrideWinner(group) ==
  LET IsService(f) == f.source.kind = "Service"
      from_services == SelectSeq(group, IsService)
  IN IF from_services # <<>> THEN Last(from_services) ELSE Last(group)

\* C25: under the Override strategy the call succeeds and every conflict
\* group is resolved to one of its files, unchanged: the last-collected
\* service file when the group has a service file, otherwise the last
\* base-template file.
C25_OverrideLastServiceWins ==
  (r_out.done /\ StrategyOf(r_config) = "Override") =>
    /\ r_out.ok
    /\ \A path \in ConflictPaths(r_files) :
         LET group == GroupOf(r_files, path)
         IN /\ ResolvedAt(path) = <<OverrideWinner(group)>>
            /\ OverrideWinner(group) \in Range(group)
            /\ OverrideWinner(group).source.kind = "BaseTemplate"
                 <=> \A i \in DOMAIN group : group[i].source.kind = "BaseTemplate"

\* a group whose last-collected file is a base file and which has two service
\* files: the later service file is returned
C25_Witness ==
  /\ r_out.done /\ r_out.ok
  /\ StrategyOf(r_config) = "Override"
  /\ LET group == GroupOf(r_files, <<PackageJson>>)
     IN /\ Len(group) = 3
        /\ group[1].source.kind = "Service"
        /\ group[2].source.kind = "Service"
        /\ group[1] # group[2]
        /\ group[3].source.kind = "BaseTemplate"
        /\ ResolvedAt(<<PackageJson>>) = <<group[2]>>

\* the group is resolved by appending: the Append strategy, or the Merge
\* strategy on a path that is not a .json path
ResolvedByAppend(path) ==
  \/ StrategyOf(r_config) = "Append"
  \/ StrategyOf(r_config) = "Merge" /\ Extension(path) # ".json"

\* the contents with one newline between consecutive contents
RECURSIVE NewlineSeparated(_)
NewlineSeparated(files) ==
  IF files = <<>> THEN <<>>
  ELSE IF Len(files) = 1 THEN files[1].content
  ELSE Head(files).content \o <<Newline>> \o NewlineSeparated(Tail(files))

\* C26 as claimed: a conflict group resolved by appending yields the
\* contributors' contents in collection order with exactly one newline
\* between consecutive contents and nothing else, in a file of provenance
\* Merged that is not marked is_template.
C26_AppendNewlineSeparated ==
  (r_out.done /\ r_out.ok) =>
    \A path \in ConflictPaths(r_files) :
      ResolvedByAppend(path) =>
        /\ Len(ResolvedAt(path)) = 1
        /\ ResolvedAt(path)[1].content = NewlineSeparated(GroupOf(r_files, path))
        /\ ResolvedAt(path)[1].source = Merged
        /\ ~ResolvedAt(path)[1].is_template

(***************************************************************************)
(* The reference evaluation of a condition.                                *)
(***************************************************************************)
\* the selections of the category a condition names
SelectionsOf(sels, key) ==
  LET OfKey(service) == CategoryKey(service.category) = key
  IN SelectSeq(sels, OfKey)

\* the active provider of the category is one of the values: the provider of
\* the last selection of the category
ActiveProviderIn(sels, key, values) ==
  /\ SelectionsOf(sels, key) # <<>>
  /\ Last(SelectionsOf(sels, key)).provider \in values

\* the value of a recognised leaf
LeafHolds(c, sels) ==
  LET leaf == Trim(c, Blank)
  IN IF IsPresenceLeaf(leaf) THEN SelectionsOf(sels, leaf[2]) # <<>>
     ELSE IF IsEqualityLeaf(leaf)
       THEN LET parts == Split(leaf, <<"==">>)
            IN ActiveProviderIn(sels, Trim(parts[1], Blank)[2],
                                {Trim(parts[2], Blank)[2]})
     ELSE LET parts == Split(leaf, In)
              listed == Trim(parts[2], Blank)
          IN ActiveProviderIn(sels, Trim(parts[1], Blank)[2],
                              {listed[i] : i \in {j \in DOMAIN listed : IsWord(listed[j])}})

\* the parts of a condition: its conjuncts, each a sequence of disjuncts
PartsOf(c) ==
  LET conjuncts == Split(c, <<"&&">>)
  IN [i \in DOMAIN conjuncts |-> Split(conjuncts[i], <<"||">>)]

\* every leaf of the condition has one of the three recognised forms
BuiltFromRecognisedLeaves(c) ==
  \A i \in DOMAIN PartsOf(c) : \A j \in DOMAIN PartsOf(c)[i] :
    IsRecognisedLeaf(PartsOf(c)[i][j])

\* all conjuncts hold, a conjunct holding when any of its disjuncts holds
ReferenceValue(c, sels) ==
  \A i \in DOMAIN PartsOf(c) : \E j \in DOMAIN PartsOf(c)[i] :
    LeafHolds(PartsOf(c)[i][j], sels)

\* C28 as claimed: on a condition built from recognised leaves with && and
\* ||, evaluate_condition returns the reference value: all &&-separated
\* parts hold, a part that is a disjunction holding when any of its
\* ||-separated leaves holds.
C28_ReferenceEvaluation ==
  (cond_result.done /\ BuiltFromRecognisedLeaves(condition)) =>
    cond_result.value = ReferenceValue(condition, services)

(***************************************************************************)
(* The collector on its own: collect_files_recursive applied to a          *)
(* directory tree.                                                         *)
(***************************************************************************)
MaxEntries == 2

\* the regular files of the trees, by name
TreeFileNames ==
  {<<"config", ".json", ".tera">>, <<"static", ".md">>, AnvilYaml,
   <<"page", ".tera", ".tera">>, <<".tera">>}

TreeFiles == {File(name, <<Text("content")>>) : name \in TreeFileNames}

\* directories, one of them with the suffix in its name
TreeDirs ==
  {Dir(name, children) :
     name \in {<<"src">>, <<"views", ".tera">>},
     children \in SeqsUpTo(TreeFiles, MaxEntries)}

Trees == SeqsUpTo(TreeFiles \cup TreeDirs, MaxEntries)

InitCollect ==
  /\ IdleCompose
  /\ services = <<>>
  /\ IdleCondition /\ IdleResolver /\ IdleJson /\ IdleCli
  /\ t_tree \in Trees
  /\ t_source \in {BaseTemplate, Service("Auth", "clerk")}
  /\ t_out = NotCollected
  /\ IdleNpm /\ IdleFilter /\ IdleManifest /\ IdleGenerator /\ IdleCalls

\* self.collect_files_recursive(dir, dir, source, &mut files).await
Collect ==
  /\ ~t_out.done
  /\ t_out' = [done |-> TRUE, files |-> CollectFilesRecursive(t_tree, <<>>, t_source)]
  /\ UNCHANGED <<composeVars, condVars, resolveVars, jsonVars, cliVars, t_tree,
                 t_source, npmVars, filterVars, manifestVars, generatorVars, calls>>

NextCollect == Collect

SpecCollect == InitCollect /\ [][NextCollect]_vars

\* the source-relative paths of the regular files of a tree other than the
\* files named anvil.yaml, in the order they are read
RECURSIVE SourcePaths(_, _)
SourcePaths(entries, prefix) ==
  IF entries = <<>> THEN <<>>
  ELSE LET e == Head(entries)
           here ==
             IF e.kind = "dir" THEN SourcePaths(e.children, prefix \o <<e.name>>)
             ELSE IF e.name = AnvilYaml THEN <<>>
             ELSE <<prefix \o <<e.name>>>>
       IN here \o SourcePaths(Tail(entries), prefix)

\* the final segment ends in the .tera suffix
EndsInMarker(relative_path) == Last(Last(relative_path)) = ".tera"

\* the path with the suffix taken off its final segment
WithoutMarker(relative_path) ==
  Front(relative_path) \o <<Front(Last(relative_path))>>

\* C27 as claimed: the collector returns one file per regular file of the
\* tree that is not the manifest, at any depth; a file whose final segment
\* ends in .tera is marked is_template and its output path is its relative
\* path with that suffix taken off the final segment, any other file keeps
\* its relative path and is not marked; each file carries the provenance of
\* the tree.
C27_CollectedPaths ==
  t_out.done =>
    LET paths == SourcePaths(t_tree, <<>>)
    IN /\ Len(t_out.files) = Len(paths)
       /\ \A i \in DOMAIN paths :
            /\ t_out.files[i].source = t_source
            /\ t_out.files[i].is_template = EndsInMarker(paths[i])
            /\ t_out.files[i].path =
                 IF EndsInMarker(paths[i]) THEN WithoutMarker(paths[i]) ELSE paths[i]

(***************************************************************************)
(* The npm entries on their own: the object merge_dependencies builds for  *)
(* one dependency string, a string being its tokens with "@" a token.      *)
(***************************************************************************)
MaxTokens == 4

DependencyStrings == SeqsUpTo({"@", "scope/pkg", "5.0.0"}, MaxTokens)

InitNpm ==
  /\ IdleCompose
  /\ services = <<>>
  /\ IdleCondition /\ IdleResolver /\ IdleJson /\ IdleCli
  /\ IdleCollect
  /\ n_dep \in DependencyStrings
  /\ n_out = NotParsed
  /\ IdleFilter /\ IdleManifest /\ IdleGenerator /\ IdleCalls

\* the closure mapped over npm_dependencies, on one string
ParseNpm ==
  /\ ~n_out.done
  /\ n_out' = [done |-> TRUE,
               name |-> NpmEntry(n_dep).o.name.o,
               version |-> NpmEntry(n_dep).o.version.o]
  /\ UNCHANGED <<composeVars, condVars, resolveVars, jsonVars, cliVars, collectVars,
                 n_dep, filterVars, manifestVars, generatorVars, calls>>

NextNpm == ParseNpm

SpecNpm == InitNpm /\ [][NextNpm]_vars

\* the positions of the version markers of a string: every @ but a leading one
MarkersOf(dep) == {i \in DOMAIN dep : dep[i] = "@" /\ i > 1}

IsScoped(dep) == dep # <<>> /\ dep[1] = "@"

\* what the claim says of the pair: the name and version for a string with a
\* version marker, the whole string and ^1.0.0 without one
PairAsClaimed(dep, name, version) ==
  IF MarkersOf(dep) = {}
    THEN name = dep /\ version = <<"^1.0.0">>
    ELSE /\ name \o <<"@">> \o version = dep
         /\ IsScoped(dep) => Len(name) = Max(MarkersOf(dep)) - 1
         /\ ~IsScoped(dep) => Len(name) = Min(MarkersOf(dep)) - 1

\* C29 as claimed: every dependency string yields a pair with a non-empty
\* name; a scoped string with a version marker splits at its last @, an
\* unscoped one at its @, a string without marker keeps the whole string as
\* name with version ^1.0.0; name, "@" and version give back the input
\* whenever a version was present.
C29_NameAndVersion ==
  n_out.done =>
    /\ n_out.name # <<>>
    /\ PairAsClaimed(n_dep, n_out.name, n_out.version)

\* the same pair for every dependency string that is not empty
NameAndVersionOfNonEmpty ==
  (n_out.done /\ n_dep # <<>>) =>
    /\ n_out.name # <<>>
    /\ PairAsClaimed(n_dep, n_out.name, n_out.version)

\* a scoped string with a version: split at the last @
ScopedSplitAtLast ==
  /\ n_out.done
  /\ n_dep = <<"@", "scope/pkg", "@", "5.0.0">>
  /\ n_out.name = <<"@", "scope/pkg">>
  /\ n_out.version = <<"5.0.0">>

(***************************************************************************)
(* The naming filters of the template engine.  A string is the sequence of *)
(* its characters, a character a one-letter token.                          *)
(***************************************************************************)
MaxChars == 4

\* "U+212A" is the Kelvin sign, an uppercase letter outside ASCII
Uppercase == {"A", "K", "U+212A"}
Lowercase == {"a", "k"}
Digits == {"3"}
Delimiters == {" ", "_", "-"}

Characters == Uppercase \cup Lowercase \cup Digits \cup Delimiters

\* char::is_uppercase
IsUppercase(c) == c \in Uppercase

\* char::to_lowercase
ToLowercase(c) ==
  CASE c = "A" -> "a" [] c = "K" -> "k" [] c = "U+212A" -> "k" [] OTHER -> c

\* char::to_uppercase
ToUppercase(c) == CASE c = "a" -> "A" [] c = "k" -> "K" [] OTHER -> c

\* str::replace(from, to) for one character
ReplaceChar(s, from, to) == [i \in DOMAIN s |-> IF s[i] = from THEN to ELSE s[i]]

\* the map of snake_case_filter and kebab_case_filter: a delimiter before
\* every uppercase character, the first character of the string included
SeparatedAtEveryUppercase(s, delimiter) ==
  Flatten([i \in DOMAIN s |->
             IF IsUppercase(s[i])
               THEN <<delimiter, ToLowercase(s[i])>>
               ELSE <<ToLowercase(s[i])>>])

\* the map of snake_case_filter and kebab_case_filter: a delimiter before
\* every uppercase character but the first character of the string
SeparatedAtUppercase(s, delimiter) ==
  Flatten([i \in DOMAIN s |->
             IF IsUppercase(s[i]) /\ i > 1
               THEN <<delimiter, ToLowercase(s[i])>>
               ELSE <<ToLowercase(s[i])>>])

snake_case_filter(s) ==
  ReplaceChar(ReplaceChar(SeparatedAtUppercase(s, "_"), " ", "_"), "-", "_")

kebab_case_filter(s) ==
  ReplaceChar(ReplaceChar(SeparatedAtUppercase(s, "-"), " ", "-"), "_", "-")

\* s.split(&[' ', '_', '-'][..]): the segments between delimiters, empty ones
\* included
RECURSIVE SplitAtDelimiters(_)
SplitAtDelimiters(s) ==
  IF s = <<>> THEN << <<>> >>
  ELSE LET rest == SplitAtDelimiters(Tail(s))
       IN IF Head(s) \in Delimiters
            THEN << <<>> >> \o rest
            ELSE << <<Head(s)>> \o Head(rest) >> \o Tail(rest)

\* the inner loop of pascal_case_filter: a new word at every uppercase
\* character that does not start the segment
RECURSIVE CamelWords(_)
CamelWords(segment) ==
  IF segment = <<>> THEN <<>>
  ELSE LET rest == CamelWords(Tail(segment))
       IN IF rest = <<>> THEN << <<Head(segment)>> >>
          ELSE IF IsUppercase(Head(rest)[1])
            THEN << <<Head(segment)>> >> \o rest
            ELSE << <<Head(segment)>> \o Head(rest) >> \o Tail(rest)

\* first.to_uppercase() + &chars.as_str().to_lowercase()
Capitalized(word) ==
  [i \in DOMAIN word |-> IF i = 1 THEN ToUppercase(word[i]) ELSE ToLowercase(word[i])]

PascalWords(s) ==
  LET segments == SplitAtDelimiters(s)
  IN Flatten([i \in DOMAIN segments |-> CamelWords(segments[i])])

pascal_case_filter(s) ==
  LET words == PascalWords(s)
  IN Flatten([i \in DOMAIN words |-> Capitalized(words[i])])

InitFilter ==
  /\ IdleCompose
  /\ services = <<>>
  /\ IdleCondition /\ IdleResolver /\ IdleJson /\ IdleCli
  /\ IdleCollect /\ IdleNpm
  /\ f_input \in SeqsUpTo(Characters, MaxChars)
  /\ f_out = NotFiltered
  /\ IdleManifest /\ IdleGenerator /\ IdleCalls

\* {{ v | snake_case }}, {{ v | kebab_case }}, {{ v | pascal_case }} and the
\* two compositions {{ v | snake_case | pascal_case }}, {{ v | kebab_case | pascal_case }}
ApplyFilters ==
  /\ ~f_out.done
  /\ f_out' = [done |-> TRUE,
               snake |-> snake_case_filter(f_input),
               kebab |-> kebab_case_filter(f_input),
               pascal |-> pascal_case_filter(f_input),
               pascal_of_snake |-> pascal_case_filter(snake_case_filter(f_input)),
               pascal_of_kebab |-> pascal_case_filter(kebab_case_filter(f_input))]
  /\ UNCHANGED <<composeVars, condVars, resolveVars, jsonVars, cliVars, collectVars,
                 npmVars, f_input, manifestVars, generatorVars, calls>>

NextFilter == ApplyFilters

SpecFilter == InitFilter /\ [][NextFilter]_vars

\* one or more words, each an uppercase letter followed by lowercase letters
\* or digits
IsPascalIdentifier(p) ==
  /\ p # <<>>
  /\ p[1] \in Uppercase
  /\ \A i \in DOMAIN p : p[i] \in Uppercase \cup Lowercase \cup Digits

\* the words of a PascalCase identifier: from each uppercase letter up to the
\* next one
WordsOfIdentifier(p) ==
  LET starts == {i \in DOMAIN p : p[i] \in Uppercase}
      EndOf(i) == IF \E j \in starts : j > i
                    THEN Min({j \in starts : j > i}) - 1
                    ELSE Len(p)
      Start(k) == CHOOSE i \in starts : Cardinality({j \in starts : j < i}) = k - 1
  IN [k \in 1..Cardinality(starts) |-> SubSeq(p, Start(k), EndOf(Start(k)))]

LowerCased(word) == [i \in DOMAIN word |-> ToLowercase(word[i])]

RECURSIVE JoinedBy(_, _)
JoinedBy(words, delimiter) ==
  IF words = <<>> THEN <<>>
  ELSE IF Len(words) = 1 THEN LowerCased(words[1])
  ELSE LowerCased(words[1]) \o <<delimiter>> \o JoinedBy(Tail(words), delimiter)

\* the input with every delimiter replaced by one delimiter
DelimitedBy(s, delimiter) ==
  [i \in DOMAIN s |-> IF s[i] \in Delimiters THEN delimiter ELSE s[i]]

\* the identifiers whose letters are ASCII letters
IsAsciiIdentifier(p) == IsPascalIdentifier(p) /\ \A i \in DOMAIN p : p[i] # "U+212A"

\* C30 as claimed: for a PascalCase identifier p, pascal_case(snake_case(p)) = p,
\* pascal_case(kebab_case(p)) = p and snake_case(p) is the lower-cased words
\* of p joined by single underscores; pascal_case of any input is the same
\* whichever of space, underscore or hyphen separates its words.
C30_FiltersRoundTrip ==
  f_out.done =>
    /\ IsPascalIdentifier(f_input) =>
         /\ f_out.pascal_of_snake = f_input
         /\ f_out.pascal_of_kebab = f_input
         /\ f_out.snake = JoinedBy(WordsOfIdentifier(f_input), "_")
    /\ \A delimiter \in Delimiters :
         pascal_case_filter(DelimitedBy(f_input, delimiter)) = f_out.pascal

\* C30 amended: the round trips hold for the PascalCase identifiers of ASCII
\* letters and digits; for every PascalCase identifier snake_case(p) is the
\* lower-cased words joined by single underscores, and pascal_case of any
\* input is the same whichever delimiter separates its words.
C30_FiltersRoundTripOnAscii ==
  f_out.done =>
    /\ IsAsciiIdentifier(f_input) =>
         /\ f_out.pascal_of_snake = f_input
         /\ f_out.pascal_of_kebab = f_input
    /\ IsPascalIdentifier(f_input) =>
         f_out.snake = JoinedBy(WordsOfIdentifier(f_input), "_")
    /\ \A delimiter \in Delimiters :
         pascal_case_filter(DelimitedBy(f_input, delimiter)) = f_out.pascal

\* an identifier of two words, one with a digit, through the filters
C30_Witness ==
  /\ f_out.done
  /\ f_input = <<"A", "3", "K", "k">>
  /\ f_out.snake = <<"a", "3", "_", "k", "k">>
  /\ f_out.kebab = <<"a", "3", "-", "k", "k">>
  /\ f_out.pascal_of_snake = f_input

\* words separated by a hyphen and an underscore give the words capitalized
DelimitedWordsCapitalized ==
  /\ f_out.done
  /\ f_input = <<"a", "-", "k", "_">>
  /\ f_out.pascal = <<"A", "K">>

(***************************************************************************)
(* The template manifest: TemplateConfig::from_file and validate.  A       *)
(* version string is the sequence of its dot-separated components.         *)
(***************************************************************************)
MaxVariables == 2
MaxFeatures == 1

\* TemplateVariable as the manifest declares it
DeclaredVariable(name, prompt, var_type) ==
  [name |-> name, prompt |-> prompt, var_type |-> var_type]

\* Feature
Feature(name, description) == [name |-> name, description |-> description]

DeclaredVariables ==
  {DeclaredVariable("project_name", "Project name", StringType(1, Some(5))),
   DeclaredVariable("", "Project name", StringType(1, Some(5))),
   DeclaredVariable("project_name", "", StringType(0, None)),
   DeclaredVariable("project_name", "Project name", StringType(2, Some(1))),
   DeclaredVariable("license", "License", ChoiceType(<<"MIT">>)),
   DeclaredVariable("license", "License", ChoiceType(<<>>)),
   DeclaredVariable("port", "Port", NumberType(Some(2), Some(1))),
   DeclaredVariable("port", "Port", NumberType(Some(2), None))}

Features ==
  {Feature("docker", "Docker support"), Feature("", "Docker support"),
   Feature("docker", "")}

VersionStrings == {<<"1", "0", "0">>, <<"1", "0">>, <<"invalid-version">>}

\* the manifests a file can deserialize to
TemplateConfigs ==
  [name : {"", "test"},
   description : {"", "Test template"},
   version : VersionStrings,
   min_anvil_version : {<<"0", "1", "0">>, <<"0", "1">>},
   variables : SeqsUpTo(DeclaredVariables, MaxVariables),
   features : SeqsUpTo(Features, MaxFeatures)]

DefaultTemplateConfig ==
  [name |-> "test", description |-> "Test template", version |-> <<"1", "0", "0">>,
   min_anvil_version |-> <<"0", "1", "0">>, variables |-> <<>>, features |-> <<>>]

\* semver::Version::parse(..).is_ok() on major.minor.patch strings
SemverParses(version) ==
  /\ Len(version) = 3
  /\ \A i \in DOMAIN version : version[i] \in {"0", "1", "2"}

\* the error of a validation, "" when it returns Ok(())
VariableValidate(variable) ==
  LET t == variable.var_type
  IN IF variable.name = "" THEN "InvalidConfig"
     ELSE IF variable.prompt = "" THEN "InvalidConfig"
     ELSE CASE t.type = "String" ->
                 IF t.max_length.some /\ t.min_length > t.max_length.v
                   THEN "InvalidConfig" ELSE ""
            [] t.type = "Choice" ->
                 IF t.options = <<>> THEN "InvalidConfig" ELSE ""
            [] t.type = "Number" ->
                 IF t.min.some /\ t.max.some /\ t.min.v > t.max.v
                   THEN "InvalidConfig" ELSE ""
            [] OTHER -> ""

\* Feature::validate with the name as its only check
FeatureValidateNameOnly(feature) ==
  IF feature.name = "" THEN "InvalidConfig" ELSE ""

FeatureValidate(feature) ==
  IF feature.name = "" THEN "InvalidConfig"
  ELSE IF feature.description = "" THEN "InvalidConfig"
  ELSE ""

\* for item in items { item.validate()?; }
RECURSIVE ValidateEach(_, _)
ValidateEach(errs, i) ==
  IF i > Len(errs) THEN ""
  ELSE IF errs[i] # "" THEN errs[i]
  ELSE ValidateEach(errs, i + 1)

TemplateConfigValidate(config) ==
  IF config.name = "" THEN "InvalidConfig"
  ELSE IF config.description = "" THEN "InvalidConfig"
  ELSE IF ~SemverParses(config.version) THEN "InvalidConfig"
  ELSE IF ~SemverParses(config.min_anvil_version) THEN "InvalidConfig"
  ELSE LET variables == ValidateEach([i \in DOMAIN config.variables |->
                                        VariableValidate(config.variables[i])], 1)
           features == ValidateEach([i \in DOMAIN config.features |->
                                       FeatureValidate(config.features[i])], 1)
       IN IF variables # "" THEN variables ELSE features

InitManifest ==
  /\ IdleCompose
  /\ services = <<>>
  /\ IdleCondition /\ IdleResolver /\ IdleJson /\ IdleCli
  /\ IdleCollect /\ IdleNpm /\ IdleFilter
  /\ \/ \E config \in TemplateConfigs : m_config = [file |-> "parsed", config |-> config]
     \/ \E file \in {"unreadable", "malformed"} :
          m_config = [file |-> file, config |-> DefaultTemplateConfig]
  /\ m_out = NotLoaded
  /\ IdleGenerator /\ IdleCalls

\* TemplateConfig::from_file(path)
FromFile ==
  /\ ~m_out.done
  /\ m_out' =
       CASE m_config.file = "unreadable" -> [done |-> TRUE, ok |-> FALSE, err |-> "FileError"]
         [] m_config.file = "malformed" -> [done |-> TRUE, ok |-> FALSE, err |-> "YamlError"]
         [] OTHER ->
              LET validated == TemplateConfigValidate(m_config.config)
              IN [done |-> TRUE, ok |-> validated = "", err |-> validated]
  /\ UNCHANGED <<composeVars, condVars, resolveVars, jsonVars, cliVars, collectVars,
                 npmVars, filterVars, m_config, generatorVars, calls>>

NextManifest == FromFile

SpecManifest == InitManifest /\ [][NextManifest]_vars

\* the bounds of a variable are consistent
ConsistentBounds(t) ==
  /\ t.type = "Choice" => Len(t.options) >= 1
  /\ (t.type = "String" /\ t.max_length.some) => t.min_length <= t.max_length.v
  /\ (t.type = "Number" /\ t.min.some /\ t.max.some) => t.min.v <= t.max.v

\* the manifests the claim says are accepted
AcceptedAsClaimed(config) ==
  /\ config.name # "" /\ config.description # ""
  /\ SemverParses(config.version) /\ SemverParses(config.min_anvil_version)
  /\ \A i \in DOMAIN config.variables :
       /\ config.variables[i].name # "" /\ config.variables[i].prompt # ""
       /\ ConsistentBounds(config.variables[i].var_type)
  /\ \A i \in DOMAIN config.features :
       config.features[i].name # "" /\ config.features[i].description # ""

\* C24: validation accepts a manifest exactly when its name and description
\* are non-empty, both versions parse, every variable has a name, a prompt
\* and consistent bounds and every feature a name and a description, and
\* rejects it with InvalidConfig otherwise; a manifest file is only returned
\* when its manifest passes the validation.
C24_ManifestValidation ==
  m_out.done =>
    /\ m_config.file = "parsed" =>
         /\ m_out.ok <=> AcceptedAsClaimed(m_config.config)
         /\ ~m_out.ok => m_out.err = "InvalidConfig"
    /\ m_out.ok => (m_config.file = "parsed" /\ TemplateConfigValidate(m_config.config) = "")

\* a manifest with two variables and a feature is accepted
C24_Witness ==
  /\ m_out.done /\ m_out.ok
  /\ Len(m_config.config.variables) = 2
  /\ Len(m_config.config.features) = 1

\* a manifest is rejected for the description of a feature alone
RejectedForFeature ==
  /\ m_out.done /\ ~m_out.ok /\ m_out.err = "InvalidConfig"
  /\ m_config.file = "parsed"
  /\ m_config.config.features = <<Feature("docker", "")>>
  /\ AcceptedAsClaimed([m_config.config EXCEPT !.features = <<>>])

(***************************************************************************)
(* The file generator (FileGenerator).  The disk is what lies under the    *)
(* output directory: the directories (<<>> the output directory itself)    *)
(* and the files with their content and permission.                        *)
(***************************************************************************)
MaxTemplateFiles == 3

\* ProcessedFile
GeneratedFile(output_path, content, executable) ==
  [output_path |-> output_path, content |-> content, executable |-> executable]

GeneratedFiles ==
  {GeneratedFile(<<"main.rs">>, <<"f", "n">>, FALSE),
   GeneratedFile(<<"src", "lib.rs">>, <<"m", "o", "d">>, FALSE),
   GeneratedFile(<<"scripts", "run.sh">>, <<"#">>, TRUE)}

\* what the output directory holds before generation
EmptyDirectory == [dirs |-> {<<>>}, files |-> {}]
DirectoryWithContent ==
  [dirs |-> {<<>>},
   files |-> {[path |-> <<"main.rs">>, content |-> <<"o", "l", "d">>, executable |-> FALSE]}]

\* fs::create_dir_all(dir)
CreateDirAll(disk, dir) ==
  [disk EXCEPT !.dirs = @ \cup {SubSeq(dir, 1, k) : k \in 0..Len(dir)}]

\* path.parent()
Parent(path) == SubSeq(path, 1, Len(path) - 1)

\* fs::File::create(path) with write_all(content): the file is truncated and
\* keeps the permission it had
CreateAndWrite(disk, path, content) ==
  LET had == {f \in disk.files : f.path = path}
  IN [disk EXCEPT !.files = (@ \ had) \cup
        {[path |-> path, content |-> content,
          executable |-> \E f \in had : f.executable]}]

\* make_executable(path)
MakeExecutable(disk, path) ==
  [disk EXCEPT !.files = {IF f.path = path THEN [f EXCEPT !.executable = TRUE] ELSE f : f \in @}]

\* the disk after write_single_file with no regard to dry_run
WrittenAlways(disk, file, dry_run) ==
  LET written == CreateAndWrite(CreateDirAll(disk, Parent(file.output_path)),
                                file.output_path, file.content)
  IN IF file.executable THEN MakeExecutable(written, file.output_path) ELSE written

\* the disk after a write_single_file that returns Ok
Written(disk, file, dry_run) ==
  IF dry_run THEN disk
  ELSE LET written == CreateAndWrite(CreateDirAll(disk, Parent(file.output_path)),
                                     file.output_path, file.content)
       IN IF file.executable THEN MakeExecutable(written, file.output_path) ELSE written

\* the disks a write_single_file that returns Err can leave: the parent not
\* created, the file not created, the content not written, the permission
\* not set
FailedWrites(disk, file) ==
  LET parents == CreateDirAll(disk, Parent(file.output_path))
  IN {disk, parents, CreateAndWrite(parents, file.output_path, <<>>)}
     \cup (IF file.executable
             THEN {CreateAndWrite(parents, file.output_path, file.content)}
             ELSE {})

\* the disk after clean_output_directory returns Ok
Cleaned(disk, dry_run) == IF dry_run THEN disk ELSE EmptyDirectory

\* callback(index, total_files, "Processing files"), index being the number
\* of files written before this one
CallbackFromZero(written, total_files) ==
  [current |-> written - 1, total |-> total_files]

\* callback(index + 1, total_files, "Processing files"), index + 1 being the
\* number of files written
Callback(written, total_files) == [current |-> written, total |-> total_files]

InitGenerator ==
  /\ IdleCompose
  /\ services = <<>>
  /\ IdleCondition /\ IdleResolver /\ IdleJson /\ IdleCli
  /\ IdleCollect /\ IdleNpm /\ IdleFilter /\ IdleManifest
  /\ g_template \in SeqsUpTo(GeneratedFiles, MaxTemplateFiles)
  /\ g_dry_run \in BOOLEAN
  /\ g_disk \in {NoDisk, EmptyDirectory, DirectoryWithContent}
  /\ g_index = 0
  /\ \E callback \in BOOLEAN : g_progress = [callback |-> callback, calls |-> <<>>]
  /\ g_result = [pc |-> "new", files_created |-> 0, bytes_written |-> 0, err |-> ""]
  /\ IdleCalls

\* generator.clean_output_directory().await
CleanOutputDirectory ==
  /\ g_result.pc = "new"
  /\ \/ /\ g_disk' = Cleaned(g_disk, g_dry_run)
        /\ g_result' = [g_result EXCEPT !.pc = "cleaned"]
     \/ /\ ~g_dry_run
        /\ g_disk' \in {g_disk, NoDisk}
        /\ g_result' = [g_result EXCEPT !.pc = "failed", !.err = "FileError"]
  /\ UNCHANGED <<composeVars, condVars, resolveVars, jsonVars, cliVars, collectVars,
                 npmVars, filterVars, manifestVars, g_template, g_dry_run, g_index,
                 g_progress, calls>>

\* generate_files up to its loop: the output directory
GenerateFiles ==
  /\ g_result.pc \in {"new", "cleaned"}
  /\ \/ /\ g_disk' = IF g_dry_run THEN g_disk ELSE CreateDirAll(g_disk, <<>>)
        /\ g_result' = [g_result EXCEPT !.pc = "files"]
     \/ /\ ~g_dry_run
        /\ g_disk' = g_disk
        /\ g_result' = [g_result EXCEPT !.pc = "failed", !.err = "FileError"]
  /\ UNCHANGED <<composeVars, condVars, resolveVars, jsonVars, cliVars, collectVars,
                 npmVars, filterVars, manifestVars, g_template, g_dry_run, g_index,
                 g_progress, calls>>

\* Self::write_single_file(&self.output_dir, file, self.dry_run).await? and
\* the counters of the loop body
WriteSingleFile ==
  /\ g_result.pc = "files"
  /\ g_index < Len(g_template)
  /\ LET file == g_template[g_index + 1]
     IN \/ /\ g_disk' = Written(g_disk, file, g_dry_run)
           /\ g_index' = g_index + 1
           /\ g_result' = [g_result EXCEPT !.pc = "callback",
                                           !.files_created = @ + 1,
                                           !.bytes_written = @ + Len(file.content)]
        \/ /\ ~g_dry_run
           /\ g_disk' \in FailedWrites(g_disk, file)
           /\ g_index' = g_index
           /\ g_result' = [g_result EXCEPT !.pc = "failed", !.err = "FileError"]
  /\ UNCHANGED <<composeVars, condVars, resolveVars, jsonVars, cliVars, collectVars,
                 npmVars, filterVars, manifestVars, g_template, g_dry_run,
                 g_progress, calls>>

\* if let Some(callback) = &progress_callback { callback(index + 1, total_files, ..) }
ReportProgress ==
  /\ g_result.pc = "callback"
  /\ g_progress' =
       IF g_progress.callback
         THEN [g_progress EXCEPT !.calls = Append(@, Callback(g_index, Len(g_template)))]
         ELSE g_progress
  /\ g_result' = [g_result EXCEPT !.pc = "files"]
  /\ UNCHANGED <<composeVars, condVars, resolveVars, jsonVars, cliVars, collectVars,
                 npmVars, filterVars, manifestVars, g_template, g_dry_run, g_disk,
                 g_index, calls>>

\* Ok(GenerationResult { files_created, directories_created, bytes_written, .. })
GenerationResult ==
  /\ g_result.pc = "files"
  /\ g_index = Len(g_template)
  /\ g_result' = [g_result EXCEPT !.pc = "ok"]
  /\ UNCHANGED <<composeVars, condVars, resolveVars, jsonVars, cliVars, collectVars,
                 npmVars, filterVars, manifestVars, g_template, g_dry_run, g_disk,
                 g_index, g_progress, calls>>

NextGenerator ==
  \/ CleanOutputDirectory
  \/ GenerateFiles
  \/ WriteSingleFile
  \/ ReportProgress
  \/ GenerationResult

SpecGenerator == InitGenerator /\ [][NextGenerator]_vars

RECURSIVE ContentLengths(_)
ContentLengths(files) ==
  IF files = <<>> THEN 0 ELSE Len(Head(files).content) + ContentLengths(Tail(files))

\* C22: in dry-run mode no step of clean_output_directory or generate_files
\* changes the disk (the output directory is not created), and generate_files
\* returns files_created = the number of files of the template and
\* bytes_written = the sum of their content lengths.
C22_DryRunLeavesDisk ==
  /\ [][g_dry_run => g_disk' = g_disk]_vars
  /\ [](g_dry_run =>
          /\ g_result.pc # "failed"
          /\ g_result.pc = "ok" =>
               /\ g_result.files_created = Len(g_template)
               /\ g_result.bytes_written = ContentLengths(g_template))

\* a dry run of three files has returned and the output directory is absent
C22_Witness ==
  /\ g_dry_run
  /\ g_result.pc = "ok"
  /\ Len(g_template) = 3
  /\ g_result.files_created = 3
  /\ g_result.bytes_written > 0
  /\ g_disk = NoDisk

\* the invocations of the callback so far are 1..n of the total
InvokedUpTo(n) ==
  g_progress.calls = [k \in 1..n |-> [current |-> k, total |-> Len(g_template)]]

\* the file is on the disk with its content
OnDisk(file) ==
  \E f \in g_disk.files : f.path = file.output_path /\ f.content = file.content

\* C23: with a callback, the invocations are current = 1, 2, ... in order with
\* total = N, one for each file written and none before its file is written;
\* after Ok there are N of them, the last with current = total; after a
\* failed write there is none for the failing file or a later one.
C23_ProgressPerFile ==
  g_progress.callback =>
    /\ g_result.pc \in {"new", "cleaned"} => InvokedUpTo(0)
    /\ g_result.pc = "files" => InvokedUpTo(g_index)
    /\ g_result.pc = "callback" =>
         /\ InvokedUpTo(g_index - 1)
         /\ ~g_dry_run => OnDisk(g_template[g_index])
    /\ g_result.pc = "ok" => InvokedUpTo(Len(g_template))
    /\ g_result.pc = "failed" => InvokedUpTo(g_index)
    /\ \A k \in DOMAIN g_progress.calls :
         g_progress.calls[k].current <= g_progress.calls[k].total

\* three files written, three invocations
C23_Witness ==
  /\ g_progress.callback
  /\ ~g_dry_run
  /\ g_result.pc = "ok"
  /\ Len(g_template) = 3
  /\ Len(g_progress.calls) = 3
  /\ g_progress.calls[3] = [current |-> 3, total |-> 3]

\* the second write failed after one invocation
FailedAfterOneInvocation ==
  /\ g_progress.callback
  /\ g_result.pc = "failed"
  /\ g_index = 1
  /\ Len(g_template) = 3
  /\ Len(g_progress.calls) = 1

(***************************************************************************)
(* Two calls of compose_template in flight at once on one engine and the   *)
(* unchanged filesystem.  A call is the record of its arguments, its        *)
(* position and its local variables.                                        *)
(***************************************************************************)
Callers == {1, 2}

CallTemplates == {"test-app", "override-app", "missing"}

CallSelections == {sels \in SelectionLists : Len(sels) <= 1}

\* the call before its first step
NewCall(name, sels) ==
  [template_name |-> name, services |-> sels, pc |-> "load",
   base_config |-> NoConfig, service_context |-> NoContext, composed_files |-> <<>>,
   svc_idx |-> 1, filtered_files |-> <<>>, resolved_files |-> <<>>,
   result |-> NoResult, err |-> NoErr]

CallReturned(call) == call.pc \in {"done", "failed"}

CallFailed(call, e) == [call EXCEPT !.pc = "failed", !.err = e]

\* the calls a step of compose_template can lead to, files being the file
\* list the step reads
StepsOf(call, files) ==
  CASE call.pc = "load" ->
         {IF call.template_name \in TemplateNames
            THEN [call EXCEPT !.base_config = TemplateManifest(call.template_name),
                              !.pc = NextStep("load")]
            ELSE CallFailed(call, FileError(<<call.template_name>>))}
    [] call.pc = "validate" ->
         {LET e == ValidateServiceSelections(call.base_config, call.services)
          IN IF e = NoErr THEN [call EXCEPT !.pc = NextStep("validate")]
             ELSE CallFailed(call, e)}
    [] call.pc = "context" ->
         {[call EXCEPT !.service_context = BuildServiceContext(call.services),
                       !.pc = NextStep("context")]}
    [] call.pc = "collect_base" ->
         {[call EXCEPT !.composed_files = CollectBaseTemplateFiles(call.template_name),
                       !.svc_idx = 1,
                       !.pc = NextStep("collect_base")]}
    [] call.pc = "collect_services" ->
         {IF call.svc_idx > Len(call.services)
            THEN [call EXCEPT !.pc = NextStep("collect_services")]
            ELSE LET service == call.services[call.svc_idx]
                 IN IF ServicePathExists(CategoryKey(service.category), service.provider)
                      THEN [call EXCEPT !.composed_files = files \o CollectServiceFiles(service),
                                        !.svc_idx = @ + 1]
                      ELSE CallFailed(call, CompositionError("collect",
                                        <<service.category, service.provider>>))}
    [] call.pc = "filter" ->
         {[call EXCEPT !.filtered_files =
                         ApplyConditionalInclusion(files, call.services,
                                                   call.base_config.composition),
                       !.pc = NextStep("filter")]}
    [] call.pc = "resolve" ->
         {LET r == ResolveFileConflicts(call.filtered_files,
                                        call.base_config.composition, order)
          IN IF r.ok THEN [call EXCEPT !.resolved_files = r.files,
                                       !.pc = NextStep("resolve")]
             ELSE CallFailed(call, r.err)
          : order \in Orders(PathsOf(call.filtered_files))}
    [] call.pc = "aggregate" ->
         {[call EXCEPT !.result =
                         [some |-> TRUE, base_config |-> call.base_config,
                          files |-> call.resolved_files,
                          merged_dependencies |-> MergeDependencies(call.services),
                          environment_variables |->
                            CollectEnvironmentVariables(call.services),
                          service_context |-> call.service_context],
                       !.pc = NextStep("aggregate")]}
    [] OTHER -> {}

\* one file list for the two calls: every call reads the list of the first
FilesOfFirstCall(all, caller) == all[1].composed_files

\* let mut composed_files: the file list a call reads is its own
ComposedFilesOf(all, caller) == all[caller].composed_files

InitCalls ==
  /\ IdleCompose
  /\ services = <<>>
  /\ IdleCondition /\ IdleResolver /\ IdleJson /\ IdleCli
  /\ IdleCollect /\ IdleNpm /\ IdleFilter /\ IdleManifest /\ IdleGenerator
  /\ calls \in [Callers -> {NewCall(name, sels) :
                              name \in CallTemplates, sels \in CallSelections}]

\* a step of one of the calls
CallStep(caller) ==
  /\ \E next \in StepsOf(calls[caller], ComposedFilesOf(calls, caller)) :
       calls' = [calls EXCEPT ![caller] = next]
  /\ UNCHANGED <<composeVars, condVars, resolveVars, jsonVars, cliVars, collectVars,
                 npmVars, filterVars, manifestVars, generatorVars>>

NextCalls == \E caller \in Callers : CallStep(caller)

SpecCalls == InitCalls /\ [][NextCalls]_vars

\* what a call run alone can return: the calls reached from it by its own
\* steps
RECURSIVE RunAlone(_)
RunAlone(reached) ==
  IF \A call \in reached : CallReturned(call) THEN reached
  ELSE RunAlone(UNION {IF CallReturned(call) THEN {call}
                       ELSE StepsOf(call, call.composed_files) : call \in reached})

Outcome(call) == [result |-> call.result, err |-> call.err, pc |-> call.pc]

AloneOutcomes(name, sels) ==
  {Outcome(call) : call \in RunAlone({NewCall(name, sels)})}

====
